---- MODULE Spec2Model ----
(***************************************************************************)
(* Navigation and catalog model of cc-sessions.                            *)
(*                                                                         *)
(*  - the reducer InteractiveState::apply (src/src/interactive_state.rs),  *)
(*    driven by arbitrary actions from the default state      (Spec)       *)
(*  - the interactive picker loop interactive_mode (src/src/main.rs)       *)
(*    over a catalog of sessions                              (SpecLoop)   *)
(*  - the pure function build_fork_tree (src/src/main.rs)     (SpecTree)   *)
(*  - session discovery (src/src/claude_code.rs):                          *)
(*      the file-name validator is_valid_session_uuid         (SpecUuid)   *)
(*      the path filter is_valid_session_file                 (SpecPath)   *)
(*      the file scan scan_head_turns_and_search              (SpecScan)   *)
(*      the Session Builder extract_session_metadata          (SpecBuild,  *)
(*                                                             SpecTitle)  *)
(*      find_sessions_with_source and                                      *)
(*      find_all_sessions_with_summary                        (SpecDisc)   *)
(*      the project name of a session file                    (SpecProject)*)
(*      the summary lookup read_summary_from_tail             (SpecTail)   *)
(*      the parallel Builders and their collection            (SpecPar)    *)
(*  - the refresh pass sync_remotes (src/src/remote.rs)       (SpecSync)   *)
(*  - the picker loop and the reducer side by side            (SpecEquiv)  *)
(*                                                                         *)
(* Option<T> is modelled as a set with at most one element: None is {},    *)
(* Some(x) is {x}.  A String is a sequence of characters; session ids are  *)
(* opaque strings.                                                         *)
(***************************************************************************)
EXTENDS Integers, Sequences, FiniteSets, TLC

VARIABLES
    \* ---- reducer (interactive_state.rs) ----
    state,          \* InteractiveState {search_pattern, search_results, focus_stack}
    prev,           \* the InteractiveState before the last apply
    action,         \* the Action last applied
    effect,         \* the Effect last returned
    \* ---- interactive loop (main.rs) ----
    sessions,       \* the catalog handed to interactive_mode
    search_pattern, \* Option<String>
    search_results, \* Option<HashSet<String>>
    focus_stack,    \* Vec<String>
    pc,             \* "picker": blocked in Skim::run_with; "done": returned
    selected_item,  \* Option<SessionItem>: the row the picker returned on Enter
    resumed,        \* Option<[session, filepath]>: arguments of resume_session
    \* ---- build_fork_tree (main.rs) ----
    tree_input,     \* the flat session list
    tree_pc,        \* "input" / "built"
    children_map,   \* the returned HashMap, a function from its keys
    \* ---- is_valid_session_uuid (claude_code.rs) ----
    uuid_input,     \* the file stem handed to the validator
    uuid_valid,     \* Option<bool>: None until the validator has run
    \* ---- is_valid_session_file (claude_code.rs) ----
    path_input,     \* the directory entry handed to the filter
    path_valid,     \* Option<bool>: None until the filter has run
    \* ---- scan_head_turns_and_search (claude_code.rs) ----
    file,           \* the session file: [readable, lines]
    scan,           \* Option<HeadTurnSearchScan>: None until the scan has run
    built,          \* Option<Option<Session>>: None until the Builder has run
    \* ---- find_sessions_with_source / find_all_sessions_with_summary ----
    disk,           \* the local projects directory and the remote caches
    cli_remote,     \* Option<&str>: the --remote filter
    root_result,    \* Option<[source, result]>: single-root discovery's return
    discovery,      \* Option<DiscoverySummary>: multi-source discovery's return
    \* ---- sync_remotes / is_stale (remote.rs) ----
    markers,        \* the .last_sync marker of each remote's cache directory
    clock,          \* SystemTime::now(), in seconds since the epoch
    stale_threshold,\* settings.stale_threshold
    check_staleness,\* the flag of sync_remotes: refresh only if stale
    sync_order,     \* the iteration order of config.remotes in this pass
    sync_idx,       \* the position of the loop in sync_order
    sync_log,       \* history: what each iteration of the loop did
    sync_return,    \* Option: "Ok" / "Err" once sync_remotes has returned
    \* ---- read_summary_from_tail (claude_code.rs) ----
    tail_file,      \* the session file, with the length of each line in bytes
    tail_summary,   \* Option<Option<String>>: None until the lookup has run
    \* ---- the parallel Builders of find_sessions_with_source ----
    par_files,      \* jsonl_files: the candidate files, in walk order
    par_results,    \* per task: None while it runs, then Some(its Option<Session>)
    par_finished,   \* history: the tasks in the order they finished
    par_sessions,   \* Option<Vec<Session>>: None until the Locator has returned
    \* ---- the loop and the reducer side by side ----
    loop_effect     \* the decision of the loop on the last outcome, as an Effect

reducerVars == <<state, prev, action, effect>>
loopVars    == <<sessions, search_pattern, search_results, focus_stack, pc,
                 selected_item, resumed>>
treeVars    == <<tree_input, tree_pc, children_map>>
uuidVars    == <<uuid_input, uuid_valid>>
pathVars    == <<path_input, path_valid>>
scanVars    == <<file, scan, built>>
discVars    == <<disk, cli_remote, root_result, discovery>>
syncVars    == <<markers, clock, stale_threshold, check_staleness, sync_order,
                 sync_idx, sync_log, sync_return>>
tailVars    == <<tail_file, tail_summary>>
parVars     == <<par_files, par_results, par_finished, par_sessions>>
equivVars   == <<loop_effect>>
lateVars    == <<syncVars, tailVars, parVars, equivVars>>
fileVars    == <<uuidVars, pathVars, scanVars, discVars, lateVars>>
navVars     == <<reducerVars, loopVars, treeVars>>
vars        == <<navVars, fileVars>>

-----------------------------------------------------------------------------
\* Bounds of the model

MaxQueryLen   == 3   \* longest picker query
MaxPatternLen == 2   \* longest pattern handed to ApplySearchResults
MaxDepth      == 3   \* deepest focus stack
MaxSessions   == 3   \* longest catalog of the interactive loop
MaxForkList   == 3   \* longest list handed to build_fork_tree
MaxTime       == 2   \* modified timestamps are 1..MaxTime
MaxDirs       == 3   \* most directories on a path handed to the filter
MaxLines      == 3   \* most lines of a session file
MaxFiles      == 2   \* most session files under the local projects directory
MaxClock      == 3   \* times of the sync pass are 0..MaxClock
MaxThreshold  == 2   \* finite staleness thresholds are 0..MaxThreshold
MaxTasks      == 3   \* most candidate files handed to the parallel Builders

\* Input alphabets
Chars      == {" ", "a"}
Ids        == {"a", "b"}
AbsentId   == "x"               \* an id no session of any catalog has
Sources    == {"local", "remote1"}

-----------------------------------------------------------------------------
\* Option<T>

None       == {}
Some(x)    == {x}
IsSome(o)  == o # {}
Unwrap(o)  == CHOOSE x \in o : TRUE
OptionOf(S) == {None} \cup {Some(x) : x \in S}

\* Strings

StringsUpTo(n) == UNION {[1..k -> Chars] : k \in 0..n}
Queries        == StringsUpTo(MaxQueryLen)
Patterns       == StringsUpTo(MaxPatternLen)

IsWhitespace(c) == c = " "

RECURSIVE TrimStart(_)
TrimStart(s) ==
    IF s # <<>> /\ IsWhitespace(Head(s)) THEN TrimStart(Tail(s)) ELSE s

RECURSIVE TrimEnd(_)
TrimEnd(s) ==
    IF s # <<>> /\ IsWhitespace(s[Len(s)])
    THEN TrimEnd(SubSeq(s, 1, Len(s) - 1))
    ELSE s

\* str::trim
Trim(s) == TrimEnd(TrimStart(s))

\* Vec helpers
Last(v)    == v[Len(v)]
LastOpt(v) == IF v = <<>> THEN None ELSE Some(Last(v))
Pop(v)     == IF v = <<>> THEN v ELSE SubSeq(v, 1, Len(v) - 1)

-----------------------------------------------------------------------------
\* The reducer: InteractiveState, Action, Effect

Continue          == [kind |-> "Continue",  pattern |-> None,    session_id |-> None]
Exit              == [kind |-> "Exit",      pattern |-> None,    session_id |-> None]
RunSearch(p)      == [kind |-> "RunSearch", pattern |-> Some(p), session_id |-> None]
Select(id)        == [kind |-> "Select",    pattern |-> None,    session_id |-> Some(id)]

DefaultState ==
    [search_pattern |-> None, search_results |-> None, focus_stack |-> <<>>]

NoAction ==
    [kind |-> "None", query |-> None, pattern |-> None, matched_ids |-> None,
     selected_id |-> None, has_children |-> FALSE]

Result(st, eff) == [state |-> st, effect |-> eff]

\* (mutant) Esc clears the focus stack together with an active search
apply_Esc_clears_both(self) ==
    IF IsSome(self.search_results)
    THEN Result([self EXCEPT !.search_results = None, !.search_pattern = None,
                             !.focus_stack = <<>>],
                Continue)
    ELSE IF self.focus_stack # <<>>
    THEN Result([self EXCEPT !.focus_stack = <<>>], Continue)
    ELSE Result(self, Exit)

\* (mutant) Esc leaves the pattern of the search it clears
apply_Esc_keeps_pattern(self) ==
    IF IsSome(self.search_results)
    THEN Result([self EXCEPT !.search_results = None], Continue)
    ELSE IF self.focus_stack # <<>>
    THEN Result([self EXCEPT !.focus_stack = <<>>], Continue)
    ELSE Result(self, Exit)

\* Action::Esc
apply_Esc(self) ==
    IF IsSome(self.search_results)
    THEN Result([self EXCEPT !.search_results = None, !.search_pattern = None],
                Continue)
    ELSE IF self.focus_stack # <<>>
    THEN Result([self EXCEPT !.focus_stack = <<>>], Continue)
    ELSE Result(self, Exit)

\* (mutant) CtrlS trims only the front of the query
apply_CtrlS_trim_start(self, query) ==
    LET q == TrimStart(query) IN
    IF q = <<>> THEN Result(self, Continue) ELSE Result(self, RunSearch(q))

\* Action::CtrlS { query }
apply_CtrlS(self, query) ==
    LET q == Trim(query) IN
    IF q = <<>> THEN Result(self, Continue) ELSE Result(self, RunSearch(q))

\* (mutant) ApplySearchResults adds the matches to those of an active search
apply_ApplySearchResults_merges(self, pattern, matched_ids) ==
    Result([self EXCEPT !.search_pattern = Some(pattern),
                        !.search_results =
                            IF IsSome(@) THEN Some(Unwrap(@) \cup matched_ids)
                                         ELSE Some(matched_ids)],
           Continue)

\* Action::ApplySearchResults { pattern, matched_ids }
apply_ApplySearchResults(self, pattern, matched_ids) ==
    Result([self EXCEPT !.search_pattern = Some(pattern),
                        !.search_results = Some(matched_ids)],
           Continue)

\* (mutant) Right pushes without looking at the top of the stack
apply_Right_no_top_check(self, selected_id, has_children) ==
    IF ~IsSome(selected_id) THEN Result(self, Continue)
    ELSE IF has_children
         THEN Result([self EXCEPT !.focus_stack = Append(@, Unwrap(selected_id))],
                     Continue)
         ELSE Result(self, Continue)

\* Action::Right { selected_id, has_children }
apply_Right(self, selected_id, has_children) ==
    IF ~IsSome(selected_id) THEN Result(self, Continue)
    ELSE
      LET id == Unwrap(selected_id)
          already_focused == LastOpt(self.focus_stack) = Some(id)
      IN IF has_children /\ ~already_focused
         THEN Result([self EXCEPT !.focus_stack = Append(@, id)], Continue)
         ELSE Result(self, Continue)

\* (mutant) Left goes back to the root view
apply_Left_clears(self) ==
    Result([self EXCEPT !.focus_stack = <<>>], Continue)

\* Action::Left
apply_Left(self) ==
    Result([self EXCEPT !.focus_stack = Pop(@)], Continue)

\* (mutant) Enter leaves search mode when it selects
apply_Enter_clears_search(self, selected_id) ==
    IF ~IsSome(selected_id) THEN Result(self, Continue)
    ELSE Result([self EXCEPT !.search_results = None, !.search_pattern = None],
                Select(Unwrap(selected_id)))

\* Action::Enter { selected_id }
apply_Enter(self, selected_id) ==
    IF ~IsSome(selected_id) THEN Result(self, Continue)
    ELSE Result(self, Select(Unwrap(selected_id)))

\* One step of the reducer machine: apply an action, remember what was applied.
Step(r, a) ==
    /\ prev'   = state
    /\ state'  = r.state
    /\ effect' = r.effect
    /\ action' = a

Esc ==
    Step(apply_Esc(state), [NoAction EXCEPT !.kind = "Esc"])

CtrlS ==
    \E query \in Queries :
        Step(apply_CtrlS(state, query),
             [NoAction EXCEPT !.kind = "CtrlS", !.query = Some(query)])

ApplySearchResults ==
    \E pattern \in Patterns, matched_ids \in SUBSET Ids :
        Step(apply_ApplySearchResults(state, pattern, matched_ids),
             [NoAction EXCEPT !.kind = "ApplySearchResults",
                              !.pattern = Some(pattern),
                              !.matched_ids = Some(matched_ids)])

Right ==
    \E selected_id \in OptionOf(Ids), has_children \in BOOLEAN :
        /\ Len(apply_Right(state, selected_id, has_children).state.focus_stack)
              <= MaxDepth
        /\ Step(apply_Right(state, selected_id, has_children),
                [NoAction EXCEPT !.kind = "Right",
                                 !.selected_id = selected_id,
                                 !.has_children = has_children])

Left ==
    Step(apply_Left(state), [NoAction EXCEPT !.kind = "Left"])

Enter ==
    \E selected_id \in OptionOf(Ids) :
        Step(apply_Enter(state, selected_id),
             [NoAction EXCEPT !.kind = "Enter", !.selected_id = selected_id])

ReducerInit ==
    /\ state  = DefaultState
    /\ prev   = DefaultState
    /\ action = NoAction
    /\ effect = Continue

ReducerIdle == ReducerInit

-----------------------------------------------------------------------------------------------------------------------------------------------------
\* Sessions and catalogs

ForkRefs == {None} \cup {Some(i) : i \in Ids \cup {AbsentId}}

\* extract_session_metadata: id is the file stem of filepath, source is the
\* tag of the root the file was found under; filepath is root/project/id.jsonl
Session(id, forked_from, modified, source) ==
    [id |-> id, forked_from |-> forked_from, modified |-> modified,
     source |-> source, filepath |-> <<source, "proj", id>>]

Range(seq) == {seq[i] : i \in 1..Len(seq)}

DistinctFiles(seq) ==
    \A i, j \in 1..Len(seq) : seq[i].filepath = seq[j].filepath => i = j

-----------------------------------------------------------------------------
\* build_fork_tree

\* slice::sort_by(|a, b| b.modified.cmp(&a.modified)) is a stable sort,
\* descending by modified: each element goes behind every element that is
\* not older than it.
RECURSIVE InsertByModifiedDesc(_, _)
InsertByModifiedDesc(sorted, s) ==
    IF sorted = <<>> THEN <<s>>
    ELSE IF Head(sorted).modified >= s.modified
         THEN <<Head(sorted)>> \o InsertByModifiedDesc(Tail(sorted), s)
         ELSE <<s>> \o sorted

\* (mutant) the child lists are left in input order
SortByModifiedDesc_unsorted(children) == children

RECURSIVE SortByModifiedDesc(_)
SortByModifiedDesc(children) ==
    IF children = <<>> THEN <<>>
    ELSE InsertByModifiedDesc(
             SortByModifiedDesc(SubSeq(children, 1, Len(children) - 1)),
             children[Len(children)])

\* children pushed under entry(parent_id), in input order
ChildrenOf(ss, parent_id) ==
    LET IsChild(s) == s.forked_from = Some(parent_id) IN SelectSeq(ss, IsChild)

build_fork_tree(ss) ==
    LET keys == {Unwrap(ss[i].forked_from) :
                    i \in {j \in 1..Len(ss) : IsSome(ss[j].forked_from)}}
    IN [parent_id \in keys |-> SortByModifiedDesc(ChildrenOf(ss, parent_id))]

-----------------------------------------------------------------------------
\* interactive_mode

\* session_by_id: HashMap<&str, &Session> collected from the catalog in
\* order; a later session with the same id replaces an earlier one.
session_by_id_keys(ss) == {ss[i].id : i \in 1..Len(ss)}

session_by_id_get(ss, id) ==
    LET hits == {i \in 1..Len(ss) : ss[i].id = id}
    IN IF hits = {} THEN None
       ELSE Some(ss[CHOOSE i \in hits : \A j \in hits : j <= i])

\* (mutant) the root view hides every fork, orphaned or not
is_root_hides_forks(ss, s) == ~IsSome(s.forked_from)

\* root-view filter closure
is_root(ss, s) ==
    IF IsSome(s.forked_from)
    THEN Unwrap(s.forked_from) \notin session_by_id_keys(ss)
    ELSE TRUE

\* (mutant) the focused subtree is shown even while a search is active
visible_sessions_focus_first(ss, results, stack) ==
    IF stack # <<>>
    THEN LET focus_id == Last(stack)
             found    == session_by_id_get(ss, focus_id)
             tree     == build_fork_tree(ss)
         IN IF IsSome(found)
            THEN <<Unwrap(found)>> \o
                 (IF focus_id \in DOMAIN tree THEN tree[focus_id] ELSE <<>>)
            ELSE <<>>
    ELSE IF IsSome(results)
    THEN LET Matched(s) == s.id \in Unwrap(results) IN SelectSeq(ss, Matched)
    ELSE LET Root(s) == is_root(ss, s) IN SelectSeq(ss, Root)

\* visible_sessions, recomputed at the head of every loop iteration
visible_sessions(ss, results, stack) ==
    IF IsSome(results)
    THEN LET Matched(s) == s.id \in Unwrap(results) IN SelectSeq(ss, Matched)
    ELSE IF stack # <<>>
    THEN LET focus_id == Last(stack)
             found    == session_by_id_get(ss, focus_id)
             tree     == build_fork_tree(ss)
         IN IF IsSome(found)
            THEN <<Unwrap(found)>> \o
                 (IF focus_id \in DOMAIN tree THEN tree[focus_id] ELSE <<>>)
            ELSE <<>>
    ELSE LET Root(s) == is_root(ss, s) IN SelectSeq(ss, Root)

Visible == visible_sessions(sessions, search_results, focus_stack)

\* session_info[id].0
has_children(ss, id) == id \in DOMAIN build_fork_tree(ss)

\* SessionItem built for a visible session; output() is session_id
SessionItem(s) == [filepath |-> s.filepath, session_id |-> s.id]

\* out.selected_items.first(): no item, or the item of one visible row
SelectedItems == {None} \cup {Some(SessionItem(Visible[i])) : i \in 1..Len(Visible)}

\* queries typed into the picker before ctrl-s
LoopQueries == {<<>>, <<" ">>, <<" ", "a">>, <<"a">>}

\* search_all_sessions: Err (invalid pattern, I/O), or the ids of the matches
SearchOutcomes == {None} \cup {Some(m) : m \in SUBSET Ids}

\* Some(out) if out.is_abort
LoopEsc ==
    /\ pc = "picker"
    /\ IF IsSome(search_results)
       THEN /\ search_results' = None
            /\ search_pattern' = None
            /\ UNCHANGED <<focus_stack, pc>>
       ELSE IF focus_stack # <<>>
       THEN /\ focus_stack' = <<>>
            /\ UNCHANGED <<search_results, search_pattern, pc>>
       ELSE /\ pc' = "done"
            /\ UNCHANGED <<search_results, search_pattern, focus_stack>>
    /\ UNCHANGED <<sessions, selected_item, resumed>>

\* the ctrl-s branch for the query q typed into the picker, when
\* search_all_sessions ends with outcome
LoopCtrlSWith(q, outcome) ==
    LET query == Trim(q) IN
    IF query = <<>>
    THEN UNCHANGED <<search_results, search_pattern>>
    ELSE IF IsSome(outcome)
    THEN /\ search_results' = Some(Unwrap(outcome))
         /\ search_pattern' = Some(query)
    ELSE UNCHANGED <<search_results, search_pattern>>

\* out.final_key == Key::Ctrl('s')
LoopCtrlS ==
    /\ pc = "picker"
    /\ \E q \in LoopQueries, outcome \in SearchOutcomes :
         LoopCtrlSWith(q, outcome)
    /\ UNCHANGED <<sessions, focus_stack, pc, selected_item, resumed>>

\* (mutant) the right-arrow pushes a session that has no forks
push_focus_without_children(ss, stack, item) ==
    IF ~IsSome(item) THEN stack
    ELSE LET selected_id == Unwrap(item).session_id
             already_focused == LastOpt(stack) = Some(selected_id)
         IN IF ~already_focused THEN Append(stack, selected_id) ELSE stack

\* the stack a right-arrow on the item leaves
push_focus(ss, stack, item) ==
    IF ~IsSome(item) THEN stack
    ELSE LET selected_id == Unwrap(item).session_id
             already_focused == LastOpt(stack) = Some(selected_id)
         IN IF ~already_focused /\ has_children(ss, selected_id)
            THEN Append(stack, selected_id)
            ELSE stack

\* the right-arrow branch for the selected item
LoopRightWith(item) ==
    /\ Len(push_focus(sessions, focus_stack, item)) <= MaxDepth
    /\ focus_stack' = push_focus(sessions, focus_stack, item)

\* out.final_key == Key::Right
LoopRight ==
    /\ pc = "picker"
    /\ \E item \in SelectedItems : LoopRightWith(item)
    /\ UNCHANGED <<sessions, search_results, search_pattern, pc,
                   selected_item, resumed>>

\* out.final_key == Key::Left
LoopLeft ==
    /\ pc = "picker"
    /\ focus_stack' = Pop(focus_stack)
    /\ UNCHANGED <<sessions, search_results, search_pattern, pc,
                   selected_item, resumed>>

\* the session handed to resume_session for an item
resolve(ss, item) == session_by_id_get(ss, item.session_id)

\* the Enter branch for the selected item
LoopEnterWith(item) ==
    IF IsSome(item) /\ IsSome(resolve(sessions, Unwrap(item)))
    THEN LET session == Unwrap(resolve(sessions, Unwrap(item))) IN
         /\ selected_item' = item
         /\ resumed' = Some([session |-> session,
                             filepath |-> session.filepath])
         /\ pc' = "done"
    ELSE UNCHANGED <<selected_item, resumed, pc>>

\* Enter
LoopEnter ==
    /\ pc = "picker"
    /\ \E item \in SelectedItems : LoopEnterWith(item)
    /\ UNCHANGED <<sessions, search_results, search_pattern, focus_stack>>

\* Skim::run_with returned None
LoopNoOutput ==
    /\ pc = "picker"
    /\ pc' = "done"
    /\ UNCHANGED <<sessions, search_results, search_pattern, focus_stack,
                   selected_item, resumed>>

\* The catalog main() hands over: non-empty, distinct files, ordered by
\* modified descending (find_all_sessions_with_summary sorts it).
LoopAttrs == Ids \X ForkRefs \X Sources

Catalog(attrs) ==
    [i \in 1..Len(attrs) |->
        Session(attrs[i][1], attrs[i][2], Len(attrs) - i + 1, attrs[i][3])]

LoopInit ==
    /\ \E n \in 1..MaxSessions : \E attrs \in [1..n -> LoopAttrs] :
         /\ DistinctFiles(Catalog(attrs))
         /\ sessions = Catalog(attrs)
    /\ search_pattern = None
    /\ search_results = None
    /\ focus_stack = <<>>
    /\ pc = "picker"
    /\ selected_item = None
    /\ resumed = None

LoopIdle ==
    /\ sessions = <<>>
    /\ search_pattern = None
    /\ search_results = None
    /\ focus_stack = <<>>
    /\ pc = "idle"
    /\ selected_item = None
    /\ resumed = None

-----------------------------------------------------------------------------
\* build_fork_tree applied to an arbitrary flat list

\* a parent id is absent from a list whenever no session of the list has it
TreeForkRefs == {None} \cup {Some(i) : i \in Ids}

TreeAttrs == Ids \X TreeForkRefs \X (1..MaxTime) \X Sources

TreeList(attrs) ==
    [i \in 1..Len(attrs) |->
        Session(attrs[i][1], attrs[i][2], attrs[i][3], attrs[i][4])]

TreeInit ==
    /\ \E n \in 0..MaxForkList : \E attrs \in [1..n -> TreeAttrs] :
         /\ DistinctFiles(TreeList(attrs))
         /\ tree_input = TreeList(attrs)
    /\ tree_pc = "input"
    /\ children_map = <<>>

TreeIdle ==
    /\ tree_input = <<>>
    /\ tree_pc = "idle"
    /\ children_map = <<>>

BuildForkTree ==
    /\ tree_pc = "input"
    /\ children_map' = build_fork_tree(tree_input)
    /\ tree_pc' = "built"
    /\ UNCHANGED tree_input

-----------------------------------------------------------------------------
\* Properties of the reducer (checked under Spec)

\* a search is active when a pattern or a result set is present
SearchActive(st) == IsSome(st.search_pattern) \/ IsSome(st.search_results)

SearchUnchanged ==
    /\ state.search_pattern = prev.search_pattern
    /\ state.search_results = prev.search_results

\* C1: Escape does exactly one of three things, in priority order: with an
\* active search it clears pattern and results, keeps the focus stack and
\* continues; otherwise with a non-empty focus stack it clears the whole stack
\* and continues; otherwise it changes nothing and exits.  From any state,
\* repeated Escape exits on at most the third application.
C1_EscPriority ==
    /\ action.kind = "Esc" =>
         IF SearchActive(prev)
         THEN /\ state.search_pattern = None
              /\ state.search_results = None
              /\ state.focus_stack = prev.focus_stack
              /\ effect = Continue
         ELSE IF prev.focus_stack # <<>>
         THEN /\ state.focus_stack = <<>>
              /\ SearchUnchanged
              /\ effect = Continue
         ELSE /\ state = prev
              /\ effect = Exit
    /\ LET r1 == apply_Esc(state)
           r2 == apply_Esc(r1.state)
           r3 == apply_Esc(r2.state)
       IN Exit \in {r1.effect, r2.effect, r3.effect}

\* Escape was applied with a search active over a non-empty focus stack
C1_Witness ==
    /\ action.kind = "Esc"
    /\ SearchActive(prev)
    /\ Len(prev.focus_stack) >= 2
    /\ effect = Continue

\* C2: DrillRight always continues and never touches the search; it pushes
\* the selected id iff an id is selected, has_children is true and the id
\* differs from the top of the stack; otherwise the stack is unchanged.
C2_DrillRight ==
    action.kind = "Right" =>
        LET pushes ==
                /\ IsSome(action.selected_id)
                /\ action.has_children
                /\ \/ prev.focus_stack = <<>>
                   \/ prev.focus_stack[Len(prev.focus_stack)]
                         \notin action.selected_id
        IN /\ effect = Continue
           /\ SearchUnchanged
           /\ pushes => /\ Len(state.focus_stack) = Len(prev.focus_stack) + 1
                        /\ \A i \in 1..Len(prev.focus_stack) :
                               state.focus_stack[i] = prev.focus_stack[i]
                        /\ state.focus_stack[Len(state.focus_stack)]
                               \in action.selected_id
           /\ ~pushes => state.focus_stack = prev.focus_stack

\* DrillRight was asked to drill into the id already on top of the stack
C2_Witness ==
    /\ action.kind = "Right"
    /\ action.has_children
    /\ prev.focus_stack # <<>>
    /\ action.selected_id = {prev.focus_stack[Len(prev.focus_stack)]}
    /\ SearchActive(prev)

\* t is q without its leading and trailing whitespace
IsTrimmed(t, q) ==
    /\ t = <<>> \/ (~IsWhitespace(t[1]) /\ ~IsWhitespace(t[Len(t)]))
    /\ \E lead \in 0..Len(q) :
         /\ lead + Len(t) <= Len(q)
         /\ \A i \in 1..Len(q) :
              IF i > lead /\ i <= lead + Len(t)
              THEN q[i] = t[i - lead]
              ELSE IsWhitespace(q[i])

\* C3: CommitSearch never changes the navigation state; it continues when the
\* trimmed query is empty and otherwise returns RunSearch carrying exactly the
\* trimmed query.
C3_CommitSearch ==
    action.kind = "CtrlS" =>
        /\ state = prev
        /\ \A q \in action.query :
             IF IsTrimmed(<<>>, q)
             THEN effect = Continue
             ELSE /\ effect.kind = "RunSearch"
                  /\ effect.session_id = None
                  /\ \A t \in effect.pattern : IsTrimmed(t, q)
                  /\ IsSome(effect.pattern)

\* CommitSearch was applied to a query padded on both sides
C3_Witness ==
    /\ action.kind = "CtrlS"
    /\ action.query = {<<" ", "a", " ">>}
    /\ effect.kind = "RunSearch"
    /\ SearchActive(prev)

\* C4: ApplySearchResults leaves the search state exactly the given pattern
\* and matched-id set, whether or not a search was active, keeps the focus
\* stack and continues.
C4_ApplySearchResults ==
    action.kind = "ApplySearchResults" =>
        /\ state.search_pattern = action.pattern
        /\ state.search_results = action.matched_ids
        /\ IsSome(state.search_pattern) /\ IsSome(state.search_results)
        /\ state.focus_stack = prev.focus_stack
        /\ effect = Continue

\* ApplySearchResults replaced an active search by a different one
C4_Witness ==
    /\ action.kind = "ApplySearchResults"
    /\ SearchActive(prev)
    /\ prev.search_results = {{"a"}}
    /\ state.search_results = {{"b"}}
    /\ prev.search_pattern # state.search_pattern
    /\ prev.focus_stack # <<>>

\* C5: DrillLeft removes exactly the top of a non-empty focus stack (what is
\* below keeps its order), leaves an empty stack empty, never changes the
\* search state and always continues.
C5_DrillLeft ==
    action.kind = "Left" =>
        /\ effect = Continue
        /\ SearchUnchanged
        /\ IF prev.focus_stack = <<>>
           THEN state.focus_stack = <<>>
           ELSE /\ Len(state.focus_stack) = Len(prev.focus_stack) - 1
                /\ \A i \in 1..Len(state.focus_stack) :
                       state.focus_stack[i] = prev.focus_stack[i]

\* DrillLeft popped a stack that had something below its top
C5_Witness ==
    /\ action.kind = "Left"
    /\ Len(prev.focus_stack) = 3
    /\ prev.focus_stack[1] # prev.focus_stack[2]
    /\ Len(state.focus_stack) = 2

\* C6: Select never changes the navigation state; it continues when no id is
\* selected and otherwise returns the Select effect carrying the selected id.
C6_Select ==
    action.kind = "Enter" =>
        /\ state = prev
        /\ IF action.selected_id = None
           THEN effect = Continue
           ELSE /\ effect.kind = "Select"
                /\ effect.session_id = action.selected_id
                /\ effect.pattern = None

\* Select was applied to a selected id during a search inside a subtree
C6_Witness ==
    /\ action.kind = "Enter"
    /\ IsSome(action.selected_id)
    /\ SearchActive(prev)
    /\ prev.focus_stack # <<>>
    /\ effect.kind = "Select"

-----------------------------------------------------------------------------
\* Properties of the interactive loop (checked under SpecLoop)

VisibleSet == Range(Visible)

RootSessions ==
    {s \in Range(sessions) :
        \/ s.forked_from = None
        \/ \A t \in Range(sessions) : t.id \notin s.forked_from}

\* C7: the visible set is derived with search before focus: with a search
\* active it is exactly the catalog sessions whose id is matched, whatever the
\* focus stack; otherwise with a non-empty focus stack it is exactly the
\* session on top of the stack together with its direct children; otherwise
\* it is exactly the root sessions.
C7_VisibleSet ==
    IF IsSome(search_pattern) \/ IsSome(search_results)
    THEN /\ IsSome(search_results)
         /\ \A matched \in search_results :
               VisibleSet = {s \in Range(sessions) : s.id \in matched}
    ELSE IF focus_stack # <<>>
    THEN \E focused \in Range(sessions) :
            /\ focused.id = focus_stack[Len(focus_stack)]
            /\ VisibleSet =
                 {focused} \cup
                 {s \in Range(sessions) :
                     s.forked_from = {focus_stack[Len(focus_stack)]}}
    ELSE VisibleSet = RootSessions

\* a search is shown over a drilled-into subtree whose session did not match
C7_Witness ==
    /\ pc = "picker"
    /\ IsSome(search_results)
    /\ focus_stack # <<>>
    /\ VisibleSet # {}
    /\ \A s \in VisibleSet : s.id # focus_stack[Len(focus_stack)]

\* C8: a session forked from an id no session of the catalog has is a root:
\* it is in the root view like a session without forked_from; a session
\* forked from a present session is never in the root view.
C8_OrphanIsRoot ==
    (pc = "picker" /\ search_results = None /\ focus_stack = <<>>) =>
        \A s \in Range(sessions) :
            LET present == \E t \in Range(sessions) : t.id \in s.forked_from
            IN /\ s.forked_from = None => s \in VisibleSet
               /\ (s.forked_from # None /\ ~present) => s \in VisibleSet
               /\ (s.forked_from # None /\ present) => s \notin VisibleSet

\* the root view of a catalog holding a plain root, a fork of it and an orphan
C8_Witness ==
    /\ pc = "picker" /\ search_results = None /\ focus_stack = <<>>
    /\ \E r, f, o \in Range(sessions) :
         /\ r.forked_from = None
         /\ f.forked_from = {r.id}
         /\ o.forked_from = {AbsentId}
         /\ o \in VisibleSet /\ r \in VisibleSet /\ f \notin VisibleSet

\* C10: the identifier the picker returns for a row resolves back to the
\* session that produced the row: the session resumed has the source and the
\* filepath of the selected row.
C10_ResumesSelectedRow ==
    \A item \in selected_item, call \in resumed :
        /\ call.filepath = item.filepath
        /\ \A s \in Range(sessions) :
              s.filepath = item.filepath =>
                  /\ call.session.source = s.source
                  /\ call.session = s

-----------------------------------------------------------------------------
\* Properties of build_fork_tree (checked under SpecTree)

ForkKeys == {p \in Ids \cup {AbsentId} :
                \E s \in Range(tree_input) : s.forked_from = {p}}

C9_KeysAndLists ==
    /\ DOMAIN children_map = ForkKeys
    /\ \A p \in DOMAIN children_map :
         LET list == children_map[p] IN
         /\ Range(list) = {s \in Range(tree_input) : s.forked_from = {p}}
         /\ \A i, j \in 1..Len(list) : list[i] = list[j] => i = j
         /\ \A i, j \in 1..Len(list) :
               i < j => list[i].modified >= list[j].modified

\* C9 (as stated): the keys of build_fork_tree(S) are exactly the forked_from
\* values of S; the list under p holds exactly the sessions forked from p,
\* each once, by modified non-increasing; a session that no other session is
\* forked from is never a key.
C9_AsStated ==
    tree_pc = "built" =>
        /\ C9_KeysAndLists
        /\ \A i \in 1..Len(tree_input) :
              (~\E j \in 1..Len(tree_input) :
                   j # i /\ tree_input[j].forked_from = {tree_input[i].id})
              => tree_input[i].id \notin DOMAIN children_map

\* C9 (amended): as stated, except that the last part reads: a session that
\* no session of S, itself included, is forked from is never a key.
C9_ForkTree ==
    tree_pc = "built" =>
        /\ C9_KeysAndLists
        /\ \A i \in 1..Len(tree_input) :
              (~\E j \in 1..Len(tree_input) :
                   tree_input[j].forked_from = {tree_input[i].id})
              => tree_input[i].id \notin DOMAIN children_map

\* a tree built from a parent with two children given oldest first, and a leaf
C9_Witness ==
    /\ tree_pc = "built"
    /\ \E p \in DOMAIN children_map :
         /\ Len(children_map[p]) = 2
         /\ children_map[p][1].modified > children_map[p][2].modified
         /\ children_map[p] # ChildrenOf(tree_input, p)
         /\ \E s \in Range(tree_input) : s.id = p
    /\ \E s \in Range(tree_input) : s.id \notin DOMAIN children_map

-----------------------------------------------------------------------------
\* is_valid_session_uuid (claude_code.rs): the canonical file-name shape

HexDigits ==
    {"0", "1", "2", "3", "4", "5", "6", "7", "8", "9",
     "a", "b", "c", "d", "e", "f", "A", "B", "C", "D", "E", "F"}

is_ascii_hexdigit(c) == c \in HexDigits

SEGMENT_LENGTHS == <<8, 4, 4, 4, 12>>

\* str::split(sep): the parts between the separators; a string without a
\* separator is one part, and an empty string is one empty part
RECURSIVE Split(_, _)
Split(s, sep) ==
    IF \A i \in 1..Len(s) : s[i] # sep
    THEN <<s>>
    ELSE LET i == CHOOSE k \in 1..Len(s) :
                      s[k] = sep /\ \A j \in 1..(k - 1) : s[j] # sep
         IN  <<SubSeq(s, 1, i - 1)>> \o Split(SubSeq(s, i + 1, Len(s)), sep)

Min(a, b) == IF a <= b THEN a ELSE b

\* (mutant) the number of segments is not checked
is_valid_session_uuid_any_count(s) ==
    LET parts == Split(s, "-")
    IN  /\ \A i \in 1..Min(Len(parts), Len(SEGMENT_LENGTHS)) :
               Len(parts[i]) = SEGMENT_LENGTHS[i]
        /\ \A i \in 1..Len(s) : is_ascii_hexdigit(s[i]) \/ s[i] = "-"

is_valid_session_uuid(s) ==
    LET parts == Split(s, "-")
    IN  /\ Len(parts) = Len(SEGMENT_LENGTHS)
        /\ \A i \in 1..Len(parts) : Len(parts[i]) = SEGMENT_LENGTHS[i]
        /\ \A i \in 1..Len(s) : is_ascii_hexdigit(s[i]) \/ s[i] = "-"

\* Candidate file stems: dash-joined runs of one fill character whose
\* segment count and one segment length stray from the canonical shape by
\* at most one, with at most one character replaced
FillChars    == {"0", "a", "F"}
ReplaceChars == {"g", "-", "b", "B"}

Fill(n, c) == [i \in 1..n |-> c]

RECURSIVE JoinDash(_)
JoinDash(segs) ==
    IF Len(segs) = 0 THEN <<>>
    ELSE IF Len(segs) = 1 THEN segs[1]
    ELSE segs[1] \o <<"-">> \o JoinDash(Tail(segs))

SegmentShapes ==
    LET bases == {SubSeq(SEGMENT_LENGTHS, 1, Len(SEGMENT_LENGTHS) - 1),
                  SEGMENT_LENGTHS,
                  SEGMENT_LENGTHS \o <<4>>}
    IN  UNION {{[b EXCEPT ![k] = b[k] + d] : k \in 1..Len(b), d \in {-1, 0, 1}} :
                  b \in bases}

BaseStems ==
    {JoinDash([i \in 1..Len(shape) |-> Fill(shape[i], c)]) :
        shape \in SegmentShapes, c \in FillChars}

UuidInputs ==
    BaseStems \cup
    UNION {{[b EXCEPT ![p] = r] : p \in 1..Len(b), r \in ReplaceChars} :
              b \in BaseStems}

UuidInit ==
    /\ uuid_input \in UuidInputs
    /\ uuid_valid = None

UuidIdle ==
    /\ uuid_input = <<>>
    /\ uuid_valid = None

\* the discovery filter calls the validator on the file stem
ValidateUuid ==
    /\ uuid_valid = None
    /\ uuid_valid' = Some(is_valid_session_uuid(uuid_input))
    /\ UNCHANGED uuid_input

-----------------------------------------------------------------------------
\* C11: a string is accepted as a canonical session identifier exactly when
\* it is five dash-separated segments of lengths 8, 4, 4, 4 and 12, every
\* character being an ASCII hexadecimal digit of either case or a dash; that
\* is, when it has the canonical length, a dash at each segment boundary and
\* a hexadecimal digit everywhere else.

RECURSIVE SumOf(_)
SumOf(lens) == IF Len(lens) = 0 THEN 0 ELSE lens[1] + SumOf(Tail(lens))

CanonicalLen == SumOf(SEGMENT_LENGTHS) + Len(SEGMENT_LENGTHS) - 1

DashPositions ==
    {SumOf(SubSeq(SEGMENT_LENGTHS, 1, k)) + k :
        k \in 1..(Len(SEGMENT_LENGTHS) - 1)}

IsCanonical(s) ==
    /\ Len(s) = CanonicalLen
    /\ \A i \in 1..Len(s) :
           IF i \in DashPositions THEN s[i] = "-" ELSE s[i] \in HexDigits

C11_CanonicalUuid ==
    IsSome(uuid_valid) => (Unwrap(uuid_valid) <=> IsCanonical(uuid_input))

\* a stem with digits of both cases has been accepted
C11_Witness ==
    /\ uuid_valid = Some(TRUE)
    /\ \E i, j \in 1..Len(uuid_input) :
           uuid_input[i] = "F" /\ uuid_input[j] = "b"

-----------------------------------------------------------------------------
\* is_valid_session_file (claude_code.rs): the discovery path filter
\*
\* A path is [absolute, dirs, name]: whether it starts at the root, the
\* names of its directories and its file name, each a string.

Subagents == <<"s", "u", "b", "a", "g", "e", "n", "t", "s">>
Jsonl     == <<"j", "s", "o", "n", "l">>

DirNames == {Subagents, Subagents \o <<"2">>, <<"p">>}
ExtNames == {Jsonl, <<"j", "s", "o", "n">>, <<"J", "S", "O", "N", "L">>}

ValidStem == JoinDash([i \in 1..Len(SEGMENT_LENGTHS) |->
                          Fill(SEGMENT_LENGTHS[i], "a")])

Stems ==
    {ValidStem,
     [ValidStem EXCEPT ![1] = "F"],
     [ValidStem EXCEPT ![1] = "g"],
     Subagents}

FileNames == Stems \cup {stem \o <<".">> \o ext : stem \in Stems, ext \in ExtNames}

SeqsUpTo(S, n) == UNION {[1..k -> S] : k \in 0..n}

Paths ==
    [absolute : BOOLEAN, dirs : SeqsUpTo(DirNames, MaxDirs), name : FileNames]

\* the position of the last "." of a file name that splits it into stem
\* and extension: none when there is no dot or the only dot leads the name
LastDot(name) ==
    LET dots == {i \in 2..Len(name) : name[i] = "."}
    IN  IF dots = {} THEN None
        ELSE Some(CHOOSE i \in dots : \A j \in dots : j <= i)

\* Path::extension and Path::file_stem
extension(path) ==
    LET dot == LastDot(path.name)
    IN  IF IsSome(dot)
        THEN Some(SubSeq(path.name, Unwrap(dot) + 1, Len(path.name)))
        ELSE None

file_stem(path) ==
    LET dot == LastDot(path.name)
    IN  IF IsSome(dot) THEN SubSeq(path.name, 1, Unwrap(dot) - 1) ELSE path.name

\* Path::to_string_lossy: the components joined by "/", with a leading "/"
\* when the path is absolute
RECURSIVE Components(_)
Components(names) ==
    IF Len(names) = 0 THEN <<>>
    ELSE <<"/">> \o names[1] \o Components(Tail(names))

to_string_lossy(path) ==
    LET all == Components(path.dirs \o <<path.name>>)
    IN  IF path.absolute THEN all ELSE Tail(all)

\* str::contains
contains(text, pat) ==
    \E i \in 0..(Len(text) - Len(pat)) :
        \A j \in 1..Len(pat) : text[i + j] = pat[j]

is_valid_session_file(path) ==
    IF extension(path) # Some(Jsonl) THEN FALSE
    ELSE IF contains(to_string_lossy(path), <<"/">> \o Subagents \o <<"/">>)
    THEN FALSE
    ELSE is_valid_session_uuid(file_stem(path))

PathInit ==
    /\ path_input \in Paths
    /\ path_valid = None

PathIdle ==
    /\ path_input = [absolute |-> TRUE, dirs |-> <<>>, name |-> <<>>]
    /\ path_valid = None

\* the directory walk hands one entry to the filter
FilterPath ==
    /\ path_valid = None
    /\ path_valid' = Some(is_valid_session_file(path_input))
    /\ UNCHANGED path_input

-----------------------------------------------------------------------------
\* C12: the path filter returns true for a path exactly when its extension
\* is jsonl, no path segment equals the reserved name "subagents", and its
\* file stem passes the identifier validator.

Segments(path) == Range(path.dirs) \cup {path.name}

C12_PathFilter ==
    IsSome(path_valid) =>
        (Unwrap(path_valid) <=>
            /\ extension(path_input) = Some(Jsonl)
            /\ Subagents \notin Segments(path_input)
            /\ is_valid_session_uuid(file_stem(path_input)))

-----------------------------------------------------------------------------
\* Session files (claude_code.rs)
\*
\* A session file is a sequence of lines.  A line is
\*   - "unreadable": BufRead::lines yields Err for it (bytes that are not
\*     UTF-8, or a failed read),
\*   - "malformed":  text that serde_json::from_str rejects,
\*   - "record":     a JSON object, of which the model keeps the fields the
\*     program reads: type, cwd, forkedFrom.sessionId, message.content,
\*     summary and customTitle (each absent or present).
\* title_pattern tells whether the text of the line matches the pattern
\* "type"\s*:\s*"custom-title" of find_custom_title, as the text of every
\* record of that type does.
\* message.content is a string or an array of blocks [type, text].

Line(kind, type, cwd, forked, content, summary, customTitle) ==
    [kind |-> kind, type |-> type, cwd |-> cwd, forked |-> forked,
     content |-> content, summary |-> summary, customTitle |-> customTitle,
     title_pattern |-> (type = Some("custom-title"))]

UnreadableLine == Line("unreadable", None, None, None, None, None, None)
MalformedLine  == Line("malformed", None, None, None, None, None, None)

StrContent(text)   == [form |-> "string", text |-> text, blocks |-> <<>>]
ArrContent(blocks) == [form |-> "array", text |-> <<>>, blocks |-> blocks]
Block(type, text)  == [type |-> type, text |-> text]

Message(type, content) ==
    Line("record", Some(type), None, None, Some(content), None, None)
Bare(type) == Line("record", Some(type), None, None, None, None, None)
WithCwd(cwd) ==
    Line("record", Some("progress"), Some(cwd), None, None, None, None)
WithFork(id) ==
    Line("record", Some("progress"), None, Some(id), None, None, None)

\* Message texts, one for every branch of the classifiers and of
\* normalize_summary
EmptyText   == <<>>
SlashText   == <<"/", "c">>
TagText     == <<"<", "t">>
RequestText == <<"[", "R", "e", "q", "u", "e", "s", "t">>
BracketText == <<"[", "x">>
PlainText   == <<"H", "i">>
BlankText   == <<" ">>
MarkedText  == <<"#", " ", "h", "i">>
LongText    == Fill(30, "h") \o <<" ">> \o Fill(25, "h")

Texts == {EmptyText, SlashText, TagText, RequestText, BracketText,
          PlainText, BlankText, MarkedText, LongText}

-----------------------------------------------------------------------------
\* message_classification.rs

starts_with(text, prefix) ==
    /\ Len(text) >= Len(prefix)
    /\ SubSeq(text, 1, Len(prefix)) = prefix

classify_user_text_for_metrics(text) ==
    IF text = <<>> THEN "Empty"
    ELSE IF starts_with(text, <<"/">>) THEN "SlashCommand"
    ELSE IF starts_with(text, <<"<">>) THEN "CommandTag"
    ELSE IF starts_with(text, <<"[">>) THEN "BracketedOutput"
    ELSE "UserContent"

counts_as_turn(text) ==
    classify_user_text_for_metrics(text) = "UserContent"

is_first_prompt_candidate(text) ==
    IF text = <<>> THEN FALSE
    ELSE /\ ~starts_with(text, <<"/">>)
         /\ ~starts_with(text, <<"<">>)
         /\ ~starts_with(text, RequestText)

-----------------------------------------------------------------------------
\* normalize_summary (main.rs)

WhitespaceChars == {" ", "\n", "\t"}

\* str::split_whitespace: the maximal runs of non-whitespace characters
RECURSIVE split_whitespace(_)
split_whitespace(text) ==
    IF text = <<>> THEN <<>>
    ELSE IF text[1] \in WhitespaceChars THEN split_whitespace(Tail(text))
    ELSE LET ends == {k \in 1..Len(text) :
                         /\ \A j \in 1..k : text[j] \notin WhitespaceChars
                         /\ k = Len(text) \/ text[k + 1] \in WhitespaceChars}
             k    == CHOOSE e \in ends : TRUE
         IN  <<SubSeq(text, 1, k)>> \o
             split_whitespace(SubSeq(text, k + 1, Len(text)))

\* [String]::join(sep)
RECURSIVE join(_, _)
join(parts, sep) ==
    IF Len(parts) = 0 THEN <<>>
    ELSE IF Len(parts) = 1 THEN parts[1]
    ELSE parts[1] \o sep \o join(Tail(parts), sep)

\* str::trim_start_matches(chars)
RECURSIVE trim_start_matches(_, _)
trim_start_matches(text, chars) ==
    IF text # <<>> /\ text[1] \in chars
    THEN trim_start_matches(Tail(text), chars)
    ELSE text

normalize_summary(text, max_chars) ==
    LET normalized == join(split_whitespace(text), <<" ">>)
        stripped   == TrimStart(trim_start_matches(normalized, {"#", "*"}))
        truncated  == SubSeq(stripped, 1, max_chars)
        spaces     == {p \in 1..Len(truncated) : truncated[p] = " "}
        last_space == CHOOSE p \in spaces : \A q \in spaces : q <= p
        break_point ==
            IF spaces # {} /\ last_space - 1 > max_chars \div 2
            THEN last_space - 1
            ELSE Len(truncated)
    IN  IF Len(stripped) <= max_chars THEN stripped
        ELSE SubSeq(truncated, 1, break_point) \o <<".", ".", ".">>

-----------------------------------------------------------------------------
\* scan_head_turns_and_search (claude_code.rs)

\* extract_text_content: a string content itself, else the text of the
\* first block of type "text"
extract_text_content(content) ==
    IF content.form = "string" THEN Some(content.text)
    ELSE LET texts == {i \in 1..Len(content.blocks) :
                          content.blocks[i].type = "text"}
         IN  IF texts = {} THEN None
             ELSE Some(content.blocks[CHOOSE i \in texts :
                                          \A j \in texts : i <= j].text)

\* the texts of all blocks of type "text", in order
RECURSIVE TextBlocks(_)
TextBlocks(blocks) ==
    IF Len(blocks) = 0 THEN <<>>
    ELSE (IF blocks[1].type = "text" THEN <<blocks[1].text>> ELSE <<>>)
         \o TextBlocks(Tail(blocks))

extract_message_text_for_search(entry) ==
    IF entry.content = None THEN None
    ELSE LET content == Unwrap(entry.content)
         IN  IF content.form = "string" THEN Some(content.text)
             ELSE IF TextBlocks(content.blocks) # <<>>
             THEN Some(join(TextBlocks(content.blocks), <<" ">>))
             ELSE None

FIRST_PROMPT_CHARS == 50

EmptyScan ==
    [project_path |-> <<>>, first_prompt |-> None, forked_from |-> None,
     turn_count |-> 0, search_chunks |-> <<>>]

\* the text of a user entry, as both the first-prompt and the turn branch
\* extract it
UserText(entry) ==
    IF entry.type = Some("user") /\ IsSome(entry.content)
    THEN extract_text_content(Unwrap(entry.content))
    ELSE None

\* one iteration of the loop body over a line that was read
ScanEntry(acc, entry) ==
    IF entry.kind # "record" THEN acc
    ELSE LET text   == UserText(entry)
             search == IF entry.type \in {Some("user"), Some("assistant")}
                       THEN extract_message_text_for_search(entry)
                       ELSE None
         IN  [project_path |->
                  IF acc.project_path = <<>> /\ IsSome(entry.cwd)
                  THEN Unwrap(entry.cwd) ELSE acc.project_path,
              forked_from |->
                  IF acc.forked_from = None /\ IsSome(entry.forked)
                  THEN entry.forked ELSE acc.forked_from,
              first_prompt |->
                  IF /\ acc.first_prompt = None
                     /\ IsSome(text)
                     /\ is_first_prompt_candidate(Unwrap(text))
                  THEN Some(normalize_summary(Unwrap(text), FIRST_PROMPT_CHARS))
                  ELSE acc.first_prompt,
              turn_count |->
                  IF IsSome(text) /\ counts_as_turn(Unwrap(text))
                  THEN acc.turn_count + 1 ELSE acc.turn_count,
              search_chunks |->
                  IF IsSome(search) /\ Unwrap(search) # <<>>
                  THEN Append(acc.search_chunks, Unwrap(search))
                  ELSE acc.search_chunks]

\* reader.lines().map_while(Result::ok): the lines up to the first one that
\* cannot be read
ReadLines(lines) ==
    LET bad == {i \in 1..Len(lines) : lines[i].kind = "unreadable"}
    IN  IF bad = {} THEN lines
        ELSE SubSeq(lines, 1, (CHOOSE i \in bad : \A j \in bad : i <= j) - 1)

RECURSIVE ScanLines(_, _)
ScanLines(acc, lines) ==
    IF Len(lines) = 0 THEN acc
    ELSE ScanLines(ScanEntry(acc, lines[1]), Tail(lines))

to_lowercase(text) ==
    [i \in 1..Len(text) |->
        CASE text[i] = "H" -> "h"
          [] text[i] = "R" -> "r"
          [] OTHER -> text[i]]

\* a file is [readable, lines]: whether it can be opened, and its lines
scan_head_turns_and_search(f) ==
    LET acc == IF f.readable THEN ScanLines(EmptyScan, ReadLines(f.lines))
               ELSE EmptyScan
    IN  [head |-> [project_path |-> acc.project_path,
                   first_prompt |-> acc.first_prompt,
                   forked_from  |-> acc.forked_from],
         turn_count |-> acc.turn_count,
         search_text_lower |-> to_lowercase(join(acc.search_chunks, <<"\n">>))]


\* The files handed to the scanner
ScanFileLines ==
    {UnreadableLine, MalformedLine, Bare("user"), Bare("init"),
     Message("assistant", StrContent(PlainText)),
     Message("user", ArrContent(<<Block("tool_result", EmptyText),
                                  Block("text", PlainText)>>)),
     Message("user", ArrContent(<<Block("text", SlashText),
                                  Block("text", PlainText)>>)),
     WithCwd(<<"/", "p">>), WithCwd(<<"/", "q">>), WithCwd(<<>>),
     WithFork("a"), WithFork("b")}
    \cup {Message("user", StrContent(t)) : t \in Texts}

\* a file that opens, of at most MaxLines lines, or a one-line file that
\* does not open
ScanInit ==
    /\ \E n \in 0..MaxLines : \E ls \in [1..n -> ScanFileLines] :
           \/ file = [readable |-> TRUE, lines |-> ls]
           \/ n = 1 /\ file = [readable |-> FALSE, lines |-> ls]
    /\ scan = None
    /\ built = None

ScanIdle ==
    /\ file = [readable |-> FALSE, lines |-> <<>>]
    /\ scan = None
    /\ built = None

\* count_turns, read_file_head, session_search_text_lower and the Session
\* Builder all run the one scan
ScanFile ==
    /\ scan = None
    /\ scan' = Some(scan_head_turns_and_search(file))
    /\ UNCHANGED <<file, built>>

-----------------------------------------------------------------------------
\* C13: turn_count is the number of records of the entire file whose type
\* is "user" and whose extracted text is UserContent, that is, neither
\* empty nor starting with '/', '<' or '['.

IsRecord(l) == l.kind = "record"

IsUserContent(text) == text # <<>> /\ text[1] \notin {"/", "<", "["}

TurnLines(f) ==
    {i \in 1..Len(f.lines) :
        /\ IsRecord(f.lines[i])
        /\ IsSome(UserText(f.lines[i]))
        /\ IsUserContent(Unwrap(UserText(f.lines[i])))}

C13_TurnCount ==
    (IsSome(scan) /\ file.readable) =>
        Unwrap(scan).turn_count = Cardinality(TurnLines(file))

-----------------------------------------------------------------------------
\* C14: is_first_prompt_candidate is false for empty text and for text
\* starting with '/', '<' or the literal prefix "[Request", and true for
\* every other text; the session's first message is taken from the first
\* record of type "user" in the file whose text satisfies the predicate,
\* whether or not that record counts as a turn.

IsCandidate(text) ==
    /\ text # <<>>
    /\ text[1] \notin {"/", "<"}
    /\ ~(Len(text) >= Len(RequestText) /\
         \A i \in 1..Len(RequestText) : text[i] = RequestText[i])

CandidateLines(f) ==
    {i \in 1..Len(f.lines) :
        /\ IsRecord(f.lines[i])
        /\ IsSome(UserText(f.lines[i]))
        /\ IsCandidate(Unwrap(UserText(f.lines[i])))}

FirstCandidate(f) == CHOOSE i \in CandidateLines(f) : \A j \in CandidateLines(f) : i <= j

C14_FirstPrompt ==
    (IsSome(scan) /\ file.readable) =>
        /\ \A t \in Texts : is_first_prompt_candidate(t) <=> IsCandidate(t)
        /\ Unwrap(scan).head.first_prompt =
               IF CandidateLines(file) = {} THEN None
               ELSE Some(normalize_summary(
                        Unwrap(UserText(file.lines[FirstCandidate(file)])),
                        FIRST_PROMPT_CHARS))

-----------------------------------------------------------------------------
\* C15: a line that cannot be read as a record is skipped and every later
\* line is still processed: head metadata, turn count and search text are
\* those of the well-formed records of the entire file, before and after
\* the bad line.

WellFormedRecords(f) == [f EXCEPT !.lines = SelectSeq(f.lines, IsRecord)]

C15_BadLineSkipped ==
    (IsSome(scan) /\ file.readable) =>
        Unwrap(scan) = scan_head_turns_and_search(WellFormedRecords(file))

-----------------------------------------------------------------------------
\* read_file_tail, extract_project_name and extract_session_metadata
\* (claude_code.rs): the Session Builder
\*
\* For the Builder a file is [readable, stat_ok, lines, tail_skip, stem,
\* parent_dir, mtime, btime]: whether it can be opened, whether
\* fs::metadata succeeds, its lines, the number of leading lines that do
\* not lie wholly inside the trailing window (0 when the whole file fits),
\* its file stem, the name of its directory and its timestamps.

\* a line whose text matches "type"\s*:\s*"custom-title" somewhere other
\* than in the type field of a well-formed record
Mentions(l) == [l EXCEPT !.title_pattern = TRUE]

Summary(text) ==
    Line("record", Some("summary"), None, None, None, Some(text), None)
Title(text) ==
    Line("record", Some("custom-title"), None, None, None, None, Some(text))

\* read_summary_from_tail: the summary field of the first record of type
\* "summary" among the lines of the window; read_to_string fails on a
\* window that is not UTF-8
read_summary_from_tail(f) ==
    LET window  == SubSeq(f.lines, f.tail_skip + 1, Len(f.lines))
        entries == {i \in 1..Len(window) :
                       /\ window[i].kind = "record"
                       /\ window[i].type = Some("summary")}
    IN  IF ~f.readable THEN None
        ELSE IF \E i \in 1..Len(window) : window[i].kind = "unreadable"
        THEN None
        ELSE IF entries = {} THEN None
        ELSE window[CHOOSE i \in entries : \A j \in entries : i <= j].summary

\* find_custom_title: the sink keeps the last line matching the pattern and
\* fails, ending the search, on a matching line that is not UTF-8; the kept
\* line is then parsed and its customTitle read
find_custom_title(f) ==
    LET matches == {i \in 1..Len(f.lines) : f.lines[i].title_pattern}
        failed  == {i \in matches : f.lines[i].kind = "unreadable"}
        seen    == {i \in matches : \A j \in failed : i < j}
        found   == f.lines[CHOOSE i \in seen : \A j \in seen : j <= i]
    IN  IF ~f.readable \/ seen = {} THEN None
        ELSE IF found.kind = "record" THEN found.customTitle
        ELSE None

read_file_tail(f) == <<read_summary_from_tail(f), find_custom_title(f)>>

\* str::strip_prefix
strip_prefix(text, prefix) ==
    IF starts_with(text, prefix)
    THEN Some(SubSeq(text, Len(prefix) + 1, Len(text)))
    ELSE None

\* str::split_once('-'): the text after the first dash
AfterFirstDash(text) ==
    LET dashes == {i \in 1..Len(text) : text[i] = "-"}
    IN  IF dashes = {} THEN None
        ELSE Some(SubSeq(text, (CHOOSE i \in dashes : \A j \in dashes : i <= j) + 1,
                         Len(text)))

PATH_PREFIXES ==
    <<<<"D", "o", "c", "u", "m", "e", "n", "t", "s", "-", "r", "e", "p", "o", "s", "-">>,
      <<"D", "o", "c", "u", "m", "e", "n", "t", "s", "-">>,
      <<"r", "e", "p", "o", "s", "-">>,
      <<"t", "h", "i", "r", "d", "-", "p", "a", "r", "t", "y", "-", "r", "e", "p", "o", "s", "-">>>>

extract_project_name(project_path, fallback_dir) ==
    LET slashes  == {i \in 1..Len(project_path) : project_path[i] = "/"}
        last     == IF slashes = {} THEN project_path
                    ELSE SubSeq(project_path,
                                (CHOOSE i \in slashes : \A j \in slashes : j <= i) + 1,
                                Len(project_path))
        users    == strip_prefix(fallback_dir, <<"-", "U", "s", "e", "r", "s", "-">>)
        stripped == IF IsSome(users) /\ IsSome(AfterFirstDash(Unwrap(users)))
                    THEN Unwrap(AfterFirstDash(Unwrap(users)))
                    ELSE fallback_dir
        hits     == {k \in 1..Len(PATH_PREFIXES) :
                        starts_with(stripped, PATH_PREFIXES[k])}
    IN  IF project_path # <<>>
        THEN (IF last # <<>> THEN last ELSE <<"u", "n", "k", "n", "o", "w", "n">>)
        ELSE IF hits = {} THEN stripped
        ELSE Unwrap(strip_prefix(stripped,
                 PATH_PREFIXES[CHOOSE k \in hits : \A j \in hits : k <= j]))

UNIX_EPOCH == 0

extract_session_metadata(f, source) ==
    LET modified == IF IsSome(f.mtime) THEN Unwrap(f.mtime) ELSE UNIX_EPOCH
        created  == IF IsSome(f.btime) THEN Unwrap(f.btime) ELSE modified
        scanned  == scan_head_turns_and_search(f)
        head     == scanned.head
        tail     == read_file_tail(f)
        summary      == tail[1]
        custom_title == tail[2]
    IN  IF ~f.stat_ok THEN None
        ELSE IF /\ head.project_path = <<>>
                /\ head.first_prompt = None
                /\ summary = None
        THEN None
        ELSE Some([id |-> f.stem,
                   project |-> extract_project_name(head.project_path, f.parent_dir),
                   project_path |-> head.project_path,
                   filepath |-> <<source, f.parent_dir, f.stem>>,
                   created |-> created,
                   modified |-> modified,
                   first_message |-> head.first_prompt,
                   summary |-> summary,
                   name |-> custom_title,
                   turn_count |-> scanned.turn_count,
                   source |-> source,
                   forked_from |-> head.forked_from])

\* The files handed to the Builder
ParentDir == <<"-", "U", "s", "e", "r", "s", "-", "u", "-", "r", "e", "p", "o", "s", "-", "f">>

BuilderFile(readable, stat_ok, lines, tail_skip) ==
    [readable |-> readable, stat_ok |-> stat_ok, lines |-> lines,
     tail_skip |-> tail_skip, stem |-> "a", parent_dir |-> ParentDir,
     mtime |-> Some(1), btime |-> None]

BuildFileLines ==
    {UnreadableLine, MalformedLine, Bare("init"), Bare("summary"),
     WithCwd(<<"/", "p">>),
     Message("user", StrContent(PlainText)),
     Message("user", StrContent(BlankText)),
     Message("user", StrContent(SlashText)),
     Summary(<<"S">>), Summary(<<>>)}

\* a file with any trailing window, or a whole file that cannot be opened
\* or whose metadata cannot be read
BuildInit ==
    /\ \E n \in 0..MaxLines : \E ls \in [1..n -> BuildFileLines] :
           \/ \E k \in 0..n : file = BuilderFile(TRUE, TRUE, ls, k)
           \/ \E r \in BOOLEAN, st \in BOOLEAN : file = BuilderFile(r, st, ls, 0)
    /\ scan = None
    /\ built = None

TitleFileLines ==
    {UnreadableLine, MalformedLine, WithCwd(<<"/", "p">>),
     Title(<<"T">>), Title(<<"U">>), Bare("custom-title"),
     Mentions(Bare("user")), Mentions(MalformedLine), Mentions(UnreadableLine)}

TitleInit ==
    /\ \E n \in 0..MaxLines : \E ls \in [1..n -> TitleFileLines] :
           file = BuilderFile(TRUE, TRUE, ls, 0)
    /\ scan = None
    /\ built = None

\* find_sessions_with_source runs the Builder on one candidate file
BuildSession ==
    /\ built = None
    /\ built' = Some(extract_session_metadata(file, "local"))
    /\ UNCHANGED <<file, scan>>

-----------------------------------------------------------------------------
\* C16: the Builder materializes a session for a file exactly when at least
\* one of project_path, first_message and summary is non-empty; when all
\* three are empty or absent the file yields no session.

NonEmpty(opt) == IsSome(opt) /\ Unwrap(opt) # <<>>

C16_Materialized ==
    (IsSome(built) /\ file.readable /\ file.stat_ok) =>
        (IsSome(Unwrap(built)) <=>
            \/ scan_head_turns_and_search(file).head.project_path # <<>>
            \/ NonEmpty(scan_head_turns_and_search(file).head.first_prompt)
            \/ NonEmpty(read_summary_from_tail(file)))

-----------------------------------------------------------------------------
\* C17: the session name is the customTitle of the last record of the whole
\* file whose type is "custom-title"; records of any other type never
\* determine the name, and the name is absent only when the file has no
\* custom-title record.

TitleRecords(f) ==
    {i \in 1..Len(f.lines) :
        IsRecord(f.lines[i]) /\ f.lines[i].type = Some("custom-title")}

LastTitleRecord(f) ==
    f.lines[CHOOSE i \in TitleRecords(f) : \A j \in TitleRecords(f) : j <= i]

C17_LatestTitle ==
    (IsSome(built) /\ IsSome(Unwrap(built))) =>
        LET name == Unwrap(Unwrap(built)).name
        IN  IF TitleRecords(file) = {} THEN name = None
            ELSE name = LastTitleRecord(file).customTitle /\ IsSome(name)

-----------------------------------------------------------------------------
\* find_sessions_with_source and find_all_sessions_with_summary
\* (claude_code.rs): single-root and multi-source discovery
\*
\* A projects directory is [status, entries]: "absent" (it does not exist),
\* "unreadable" (it exists and walking it yields only errors) or "ok", and
\* the files the walk yields at depth 2, in walk order.  An entry is
\* [name, file]: its file name and the file behind it.  The local root may
\* also be "nohome": the home directory cannot be determined.

Remotes == {"remote1", "remote2"}

DirEntry(name, lines, mtime) ==
    [name |-> name,
     file |-> [BuilderFile(TRUE, TRUE, lines, 0) EXCEPT !.mtime = Some(mtime)]]

DirEntries ==
    {DirEntry(ValidStem \o <<".">> \o Jsonl, <<WithCwd(<<"/", "p">>)>>, t) :
        t \in 1..MaxTime}
    \cup {DirEntry(ValidStem \o <<".">> \o Jsonl, <<Bare("init")>>, 1),
          DirEntry(Subagents \o <<".">> \o Jsonl, <<WithCwd(<<"/", "p">>)>>, 1)}

Dir(status, entries) == [status |-> status, entries |-> entries]

LocalDirs ==
    {Dir("nohome", <<>>), Dir("absent", <<>>)}
    \cup {Dir("ok", es) : es \in SeqsUpTo(DirEntries, MaxFiles)}

Remote1Dirs ==
    {Dir("absent", <<>>), Dir("unreadable", <<>>)}
    \cup {Dir("ok", es) : es \in SeqsUpTo(DirEntries, 1)}

Remote2Dirs ==
    {Dir("absent", <<>>), Dir("unreadable", <<>>)}
    \cup {Dir("ok", <<DirEntry(ValidStem \o <<".">> \o Jsonl,
                              <<WithCwd(<<"/", "p">>)>>, t)>>) :
             t \in 1..MaxTime}

\* WalkDir ... .filter_map(|e| e.ok()): the entries of a readable
\* directory; errors of the walk are dropped
Walk(dir) == IF dir.status = "ok" THEN dir.entries ELSE <<>>

EntryPath(root, entry) ==
    [absolute |-> TRUE, dirs |-> <<root, <<"p">>>>, name |-> entry.name]

\* .filter_map(f): the present results, in order
RECURSIVE FilterMap(_)
FilterMap(opts) ==
    IF Len(opts) = 0 THEN <<>>
    ELSE (IF IsSome(opts[1]) THEN <<Unwrap(opts[1])>> ELSE <<>>)
         \o FilterMap(Tail(opts))

Ok(list) == [ok |-> TRUE, sessions |-> list, error |-> None]

find_sessions_with_source(root, dir, source) ==
    LET jsonl_files ==
            SelectSeq(Walk(dir),
                      LAMBDA e : is_valid_session_file(EntryPath(root, e)))
        built_sessions ==
            FilterMap([i \in 1..Len(jsonl_files) |->
                extract_session_metadata(
                    [jsonl_files[i].file EXCEPT
                        !.stem = file_stem(EntryPath(root, jsonl_files[i]))],
                    source)])
    IN  Ok(SortByModifiedDesc(built_sessions))

find_sessions(root, dir) == find_sessions_with_source(root, dir, "local")

should_include_source(remote_filter, source_name) ==
    IF remote_filter = None THEN TRUE
    ELSE source_name = Unwrap(remote_filter)

DiscoveryFailure(source_name, reason) ==
    [source_name |-> source_name, reason |-> reason]

\* the match on the result of discovery over one remote's cache
MatchResult(summary, name, result) ==
    IF result.ok
    THEN [summary EXCEPT !.sessions = @ \o result.sessions]
    ELSE [summary EXCEPT !.failures =
             Append(@, DiscoveryFailure(name, Unwrap(result.error)))]

\* (mutant) a missing cache directory is reported as a failure
LoadRemote_missing_is_failure(summary, d, remote_filter, name) ==
    IF ~should_include_source(remote_filter, name) THEN summary
    ELSE IF remote_filter = Some("local") THEN summary
    ELSE IF d.remotes[name].status = "absent"
    THEN [summary EXCEPT !.failures =
             Append(@, DiscoveryFailure(name, "missing"))]
    ELSE MatchResult(summary, name,
             find_sessions_with_source(<<"c">>, d.remotes[name], name))

\* one iteration of the loop over config.remotes
LoadRemote(summary, d, remote_filter, name) ==
    IF ~should_include_source(remote_filter, name) THEN summary
    ELSE IF remote_filter = Some("local") THEN summary
    ELSE IF d.remotes[name].status = "absent" THEN summary
    ELSE MatchResult(summary, name,
             find_sessions_with_source(<<"c">>, d.remotes[name], name))

RECURSIVE LoadRemotes(_, _, _, _)
LoadRemotes(summary, d, remote_filter, order) ==
    IF Len(order) = 0 THEN summary
    ELSE LoadRemotes(LoadRemote(summary, d, remote_filter, order[1]),
                     d, remote_filter, Tail(order))

\* the summary after the local source has been loaded
LoadLocal(d, remote_filter) ==
    [sessions |-> IF should_include_source(remote_filter, "local") /\
                     d.local.status = "ok"
                  THEN find_sessions(<<"h">>, d.local).sessions
                  ELSE <<>>,
     failures |-> <<>>]

\* summary.sessions.sort_by(|a, b| b.modified.cmp(&a.modified))
SortSessions(summary) ==
    [summary EXCEPT !.sessions = SortByModifiedDesc(@)]

\* Ok(summary)
OkSummary(summary) ==
    [ok |-> TRUE, sessions |-> summary.sessions, failures |-> summary.failures]

\* (mutant) the merged list is returned without the final sort
find_all_sessions_with_summary_unsorted(d, remote_filter, order) ==
    IF should_include_source(remote_filter, "local") /\
       d.local.status = "nohome"
    THEN [ok |-> FALSE, sessions |-> <<>>, failures |-> <<>>]
    ELSE OkSummary(LoadRemotes(LoadLocal(d, remote_filter),
                               d, remote_filter, order))

\* order: the iteration order of the HashMap config.remotes
find_all_sessions_with_summary(d, remote_filter, order) ==
    IF should_include_source(remote_filter, "local") /\
       d.local.status = "nohome"
    THEN [ok |-> FALSE, sessions |-> <<>>, failures |-> <<>>]
    ELSE OkSummary(SortSessions(LoadRemotes(LoadLocal(d, remote_filter),
                                            d, remote_filter, order)))

Disks ==
    [local : LocalDirs,
     remotes : {r \in [Remotes -> Remote1Dirs \cup Remote2Dirs] :
                   r["remote1"] \in Remote1Dirs /\ r["remote2"] \in Remote2Dirs}]

RemoteFilters == {None, Some("local"), Some("remote1")}

\* the orders in which the map of remotes can be iterated
RemoteOrders ==
    {o \in [1..Cardinality(Remotes) -> Remotes] :
        \A i, j \in DOMAIN o : i # j => o[i] # o[j]}

DirOf(d, source) == IF source = "local" THEN d.local ELSE d.remotes[source]
RootOf(source)   == IF source = "local" THEN <<"h">> ELSE <<"c">>

DiscInit ==
    /\ disk \in Disks
    /\ cli_remote \in RemoteFilters
    /\ root_result = None
    /\ discovery = None

DiscIdle ==
    /\ disk = [local |-> Dir("absent", <<>>),
               remotes |-> [r \in Remotes |-> Dir("absent", <<>>)]]
    /\ cli_remote = None
    /\ root_result = None
    /\ discovery = None

\* single-root discovery over one existing projects directory
FindSessions ==
    /\ root_result = None
    /\ \E source \in {"local"} \cup Remotes :
           /\ DirOf(disk, source).status \in {"ok", "unreadable"}
           /\ root_result' = Some([source |-> source,
                             result |-> find_sessions_with_source(
                                 RootOf(source), DirOf(disk, source), source)])
    /\ UNCHANGED <<disk, cli_remote, discovery>>

\* multi-source discovery
FindAllSessions ==
    /\ discovery = None
    /\ \E order \in RemoteOrders :
           discovery' = Some(find_all_sessions_with_summary(disk, cli_remote, order))
    /\ UNCHANGED <<disk, cli_remote, root_result>>

-----------------------------------------------------------------------------
\* C18: the list returned by single-root discovery and the merged list
\* returned by multi-source discovery are both ordered by modified
\* timestamp descending, whichever source each session came from.

SortedByModifiedDesc(list) ==
    \A i, j \in 1..Len(list) : i < j => list[i].modified >= list[j].modified

C18_SortedDescending ==
    /\ IsSome(root_result) => SortedByModifiedDesc(Unwrap(root_result).result.sessions)
    /\ IsSome(discovery) => SortedByModifiedDesc(Unwrap(discovery).sessions)

\* a merged list in which a remote session precedes an older local one, and
\* a single-root list of sessions of different age
C18_Witness ==
    /\ IsSome(root_result) /\ IsSome(discovery)
    /\ \E i, j \in 1..Len(Unwrap(discovery).sessions) :
           /\ i < j
           /\ Unwrap(discovery).sessions[i].source # "local"
           /\ Unwrap(discovery).sessions[j].source = "local"
           /\ Unwrap(discovery).sessions[i].modified >
                  Unwrap(discovery).sessions[j].modified
    /\ \E i, j \in 1..Len(Unwrap(root_result).result.sessions) :
           Unwrap(root_result).result.sessions[i].modified >
               Unwrap(root_result).result.sessions[j].modified

\* the sources multi-source discovery looks at under the --remote filter
Included(source) ==
    /\ should_include_source(cli_remote, source)
    /\ source = "local" \/ cli_remote # Some("local")

SessionsOf(list, source) == SelectSeq(list, LAMBDA s : s.source = source)

\* the sessions of every included, readable source other than r are in the
\* merged list as single-root discovery returns them
OthersPresent(r) ==
    \A s \in ({"local"} \cup Remotes) \ {r} :
        (Included(s) /\ DirOf(disk, s).status = "ok") =>
            SessionsOf(Unwrap(discovery).sessions, s) =
                find_sessions_with_source(RootOf(s), DirOf(disk, s), s).sessions

-----------------------------------------------------------------------------
\* C19: when a configured remote's cache directory exists but discovery
\* over it fails (the cache is unreadable), multi-source discovery still
\* returns successfully, its failures list holds a DiscoveryFailure naming
\* that remote, and the sessions of the local source and of every other
\* remote are still in the result.

C19_FailureRecorded ==
    IsSome(discovery) =>
        \A r \in Remotes :
            (/\ Included(r)
             /\ disk.remotes[r].status = "unreadable"
             /\ ~(Included("local") /\ disk.local.status = "nohome")) =>
                /\ Unwrap(discovery).ok
                /\ \E i \in 1..Len(Unwrap(discovery).failures) :
                       Unwrap(discovery).failures[i].source_name = r
                /\ OthersPresent(r)

-----------------------------------------------------------------------------
\* C20: a configured remote that has no cache directory yet yields no
\* DiscoveryFailure and no session tagged with it, and the sessions of the
\* local source and of the other remotes are unaffected.

C20_MissingCacheOmitted ==
    (IsSome(discovery) /\ Unwrap(discovery).ok) =>
        \A r \in Remotes :
            disk.remotes[r].status = "absent" =>
                /\ \A i \in 1..Len(Unwrap(discovery).failures) :
                       Unwrap(discovery).failures[i].source_name # r
                /\ SessionsOf(Unwrap(discovery).sessions, r) = <<>>
                /\ OthersPresent(r)

\* discovery has run over all sources with remote1's cache missing, and
\* returned sessions of both the local source and remote2
C20_Witness ==
    /\ IsSome(discovery)
    /\ cli_remote = None
    /\ disk.remotes["remote1"].status = "absent"
    /\ SessionsOf(Unwrap(discovery).sessions, "local") # <<>>
    /\ SessionsOf(Unwrap(discovery).sessions, "remote2") # <<>>

-----------------------------------------------------------------------------
\* sync_remotes, sync_remote, is_stale (remote.rs): the sync pass over the
\* configured remotes
\*
\* A staleness marker is [exists, secs]: the .last_sync file of a remote's
\* cache directory and the timestamp its content parses to; secs is None
\* when the file cannot be read or does not hold a decimal number.  Times are
\* whole seconds since the epoch.

DURATION_MAX_SECS == 15   \* Duration::MAX.as_secs(), u64::MAX scaled to 4 bits

Marker(exists, secs) == [exists |-> exists, secs |-> secs]
NoMarker             == Marker(FALSE, None)

Markers ==
    {NoMarker, Marker(TRUE, None)} \cup {Marker(TRUE, Some(t)) : t \in 0..MaxClock}

Thresholds == 0..MaxThreshold \cup {DURATION_MAX_SECS}

OkValue(v)  == [ok |-> TRUE, value |-> Some(v)]
ErrValue    == [ok |-> FALSE, value |-> None]

\* get_last_sync_time: the parsed timestamp, or an error
get_last_sync_time(marker) ==
    IF marker.secs = None THEN ErrValue ELSE OkValue(Unwrap(marker.secs))

\* now.duration_since(last_sync).unwrap_or(Duration::MAX).as_secs()
AgeSecs(now, last_sync) ==
    IF now >= last_sync THEN now - last_sync ELSE DURATION_MAX_SECS

\* the comparison of is_stale on a parsed timestamp
StaleAfter(now, threshold, last_sync) ==
    IF ~last_sync.ok THEN ErrValue
    ELSE OkValue(AgeSecs(now, Unwrap(last_sync.value)) > threshold)

\* (mutant) a marker exactly as old as the threshold is stale
is_stale_at_threshold(marker, now, threshold) ==
    IF ~marker.exists THEN OkValue(TRUE)
    ELSE IF marker.secs = None THEN ErrValue
    ELSE OkValue(AgeSecs(now, Unwrap(marker.secs)) >= threshold)

is_stale(marker, now, threshold) ==
    IF ~marker.exists THEN OkValue(TRUE)
    ELSE StaleAfter(now, threshold, get_last_sync_time(marker))

\* update_last_sync: the marker after fs::write of the current time
update_last_sync(now) == Marker(TRUE, Some(now))

\* the ways one call of sync_remote can end: the cache directory cannot be
\* created, rsync cannot be executed, rsync exits with a failure status, the
\* marker cannot be written, or success
SyncOutcomes == {"mkdir_failed", "exec_failed", "rsync_failed",
                 "write_failed", "ok"}

\* (mutant) the marker is written before the transfer is known to succeed
sync_remote_marks_first(marker, outcome, now) ==
    [ok |-> outcome = "ok",
     marker |-> IF outcome = "mkdir_failed" THEN marker
                ELSE update_last_sync(now)]

\* sync_remote: its return and the marker it leaves; now is the time at
\* which the transfer has ended
sync_remote(marker, outcome, now) ==
    [ok |-> outcome = "ok",
     marker |-> IF outcome = "ok" THEN update_last_sync(now) ELSE marker]

\* one entry of the history of a pass: what one iteration of the loop did
SyncEntry(name, before, at, stale, attempted, ok, after, end) ==
    [name |-> name, marker_before |-> before, at |-> at, stale |-> stale,
     attempted |-> attempted, ok |-> ok, marker_after |-> after, end |-> end]

SyncInit ==
    /\ markers \in [Remotes -> Markers]
    /\ clock \in 0..MaxClock
    /\ stale_threshold \in Thresholds
    /\ check_staleness \in BOOLEAN
    /\ sync_order \in RemoteOrders
    /\ sync_idx = 1
    /\ sync_log = <<>>
    /\ sync_return = None

SyncIdle ==
    /\ markers = [r \in Remotes |-> NoMarker]
    /\ clock = 0
    /\ stale_threshold = 0
    /\ check_staleness = FALSE
    /\ sync_order = <<>>
    /\ sync_idx = 1
    /\ sync_log = <<>>
    /\ sync_return = None

\* the return of sync_remotes once the loop has handled the last remote
ReturnAfter(idx) ==
    IF idx = Len(sync_order) THEN Some("Ok") ELSE None

\* one iteration of the loop of sync_remotes: the staleness check ends the
\* pass with its error
SyncAbort ==
    /\ sync_return = None /\ sync_idx <= Len(sync_order)
    /\ check_staleness
    /\ LET name  == sync_order[sync_idx]
           stale == is_stale(markers[name], clock, stale_threshold)
       IN  /\ ~stale.ok
           /\ sync_log' = Append(sync_log,
                  SyncEntry(name, markers[name], clock, Some(stale), FALSE,
                            FALSE, markers[name], clock))
    /\ sync_return' = Some("Err")
    /\ UNCHANGED <<markers, clock, stale_threshold, check_staleness,
                   sync_order, sync_idx>>

\* one iteration: the remote is not stale and is skipped
SyncSkip ==
    /\ sync_return = None /\ sync_idx <= Len(sync_order)
    /\ check_staleness
    /\ LET name  == sync_order[sync_idx]
           stale == is_stale(markers[name], clock, stale_threshold)
       IN  /\ stale.ok /\ ~Unwrap(stale.value)
           /\ sync_log' = Append(sync_log,
                  SyncEntry(name, markers[name], clock, Some(stale), FALSE,
                            FALSE, markers[name], clock))
    /\ sync_return' = ReturnAfter(sync_idx)
    /\ sync_idx' = sync_idx + 1
    /\ UNCHANGED <<markers, clock, stale_threshold, check_staleness, sync_order>>

\* the checks of one iteration that lead to sync_remote
MustSync(stale) ==
    IF check_staleness
    THEN Unwrap(stale).ok /\ Unwrap(Unwrap(stale).value)
    ELSE TRUE

\* one iteration: sync_remote is called; the transfer takes elapsed seconds
SyncAttempt ==
    /\ sync_return = None /\ sync_idx <= Len(sync_order)
    /\ \E outcome \in SyncOutcomes, elapsed \in 0..1 :
        LET name   == sync_order[sync_idx]
            stale  == IF check_staleness
                      THEN Some(is_stale(markers[name], clock, stale_threshold))
                      ELSE None
            end    == Min(clock + elapsed, MaxClock)
            result == sync_remote(markers[name], outcome, end)
        IN  /\ MustSync(stale)
            /\ markers' = [markers EXCEPT ![name] = result.marker]
            /\ clock' = end
            /\ sync_log' = Append(sync_log,
                   SyncEntry(name, markers[name], clock, stale, TRUE,
                             result.ok, result.marker, end))
    /\ sync_return' = ReturnAfter(sync_idx)
    /\ sync_idx' = sync_idx + 1
    /\ UNCHANGED <<stale_threshold, check_staleness, sync_order>>

-----------------------------------------------------------------------------
\* C21: during a sync pass the remotes are handled one after another, and a
\* failure while handling one remote (in its staleness handling or in its
\* transfer) never prevents a remaining remote from being attempted: once
\* the pass has returned, every configured remote has been handled, in the
\* order of the iteration.

C21_EveryRemoteHandled ==
    IsSome(sync_return) =>
        /\ Len(sync_log) = Len(sync_order)
        /\ \A i \in 1..Len(sync_order) : sync_log[i].name = sync_order[i]

-----------------------------------------------------------------------------
\* C24 (as stated): whenever the staleness check answers, the cache is stale
\* if and only if no marker exists or the current time minus the marker
\* timestamp is strictly greater than the threshold.

Checked(e)   == IsSome(e.stale) /\ Unwrap(e.stale).ok
Answer(e)    == Unwrap(Unwrap(e.stale).value)
MarkerSecs(e) == Unwrap(e.marker_before.secs)

-----------------------------------------------------------------------------
\* C27 (as stated): a sync attempt that fails leaves the marker unchanged
\* and a remote that was stale before the attempt is still stale after it;
\* immediately after a successful sync the remote is not stale.

StaleAt(marker, now) == is_stale(marker, now, stale_threshold) = OkValue(TRUE)

NotAhead(marker, now) ==
    ~marker.exists \/ (IsSome(marker.secs) /\ Unwrap(marker.secs) <= now)

-----------------------------------------------------------------------------
\* C22: head metadata capture is first-occurrence-wins: project_path is the
\* cwd of the earliest record of the file that carries a cwd string and
\* forked_from is the forkedFrom.sessionId of the earliest record that
\* carries one (empty and absent when no record carries one); a later
\* record never replaces the captured value.

CwdLines(f)  == {i \in 1..Len(f.lines) : IsRecord(f.lines[i]) /\ IsSome(f.lines[i].cwd)}
ForkLines(f) == {i \in 1..Len(f.lines) : IsRecord(f.lines[i]) /\ IsSome(f.lines[i].forked)}
Earliest(S)  == CHOOSE i \in S : \A j \in S : i <= j

C22_FirstOccurrenceWins ==
    (IsSome(scan) /\ file.readable) =>
        /\ Unwrap(scan).head.project_path =
               IF CwdLines(file) = {} THEN <<>>
               ELSE Unwrap(file.lines[Earliest(CwdLines(file))].cwd)
        /\ Unwrap(scan).head.forked_from =
               IF ForkLines(file) = {} THEN None
               ELSE file.lines[Earliest(ForkLines(file))].forked

-----------------------------------------------------------------------------
\* read_summary_from_tail (claude_code.rs): the trailing window in bytes
\*
\* Here a file is [lines, newline_end]: its lines and whether the last one
\* is terminated by a newline.  A line is [line, bytes, cont, invalid]: the
\* record it holds, its length in bytes without the newline, the offsets of
\* its bytes that continue a multi-byte UTF-8 character, and the offsets of
\* its bytes that are not UTF-8 at all.

TAIL_SIZE == 16384

TailLine(line, bytes, cont) ==
    [line |-> line, bytes |-> bytes, cont |-> cont,
     invalid |-> IF line.kind = "unreadable" THEN {0} ELSE {}]

\* the offset in the file of the first byte of line i
RECURSIVE LineStart(_, _)
LineStart(tf, i) ==
    IF i = 1 THEN 0 ELSE LineStart(tf, i - 1) + tf.lines[i - 1].bytes + 1

\* file.metadata().len()
FileLen(tf) ==
    IF Len(tf.lines) = 0 THEN 0
    ELSE LineStart(tf, Len(tf.lines)) + tf.lines[Len(tf.lines)].bytes
         + (IF tf.newline_end THEN 1 ELSE 0)

saturating_sub(a, b) == IF a > b THEN a - b ELSE 0

\* the offsets of the newlines of the file
NewlineOffsets(tf) ==
    {LineStart(tf, i) + tf.lines[i].bytes :
        i \in {j \in 1..Len(tf.lines) : j < Len(tf.lines) \/ tf.newline_end}}

\* read_to_string from offset start succeeds: the bytes from start on are
\* UTF-8, and start is not inside a multi-byte character
ReadsAsString(tf, start) ==
    \A i \in 1..Len(tf.lines) :
        /\ \A o \in tf.lines[i].invalid : LineStart(tf, i) + o < start
        /\ \A o \in tf.lines[i].cont : LineStart(tf, i) + o # start

\* content.lines() after the seek, the read and the skip of the partial
\* first line, as the file the loop over the lines sees: the lines before
\* the content are skipped; a line of which only a proper suffix is left in
\* the content is text that does not parse
TailView(tf) ==
    LET len      == FileLen(tf)
        start    == saturating_sub(len, TAIL_SIZE)
        newlines == {o \in NewlineOffsets(tf) : o >= start}
        newline  == CHOOSE o \in newlines : \A p \in newlines : o <= p
        n        == Len(tf.lines)
        lines    == [i \in 1..n |-> tf.lines[i].line]
    IN  IF start = 0
        THEN BuilderFile(ReadsAsString(tf, 0), TRUE, lines, 0)
        ELSE IF newlines # {}
        THEN BuilderFile(ReadsAsString(tf, start), TRUE, lines,
                 Cardinality({i \in 1..n : LineStart(tf, i) <= newline}))
        ELSE BuilderFile(ReadsAsString(tf, start), TRUE,
                 IF start = LineStart(tf, n) THEN lines
                 ELSE [lines EXCEPT ![n] = MalformedLine],
                 n - 1)

\* The files handed to the summary lookup: short lines of every kind, a
\* short line with a multi-byte character, and long lines that push the
\* seek point to the start, the middle and the end of a line
ShortBytes == 100

TailFileLines ==
    {TailLine(l, ShortBytes, {}) :
        l \in {Summary(<<"S">>), Summary(<<"T">>), Bare("summary"),
               Bare("user"), MalformedLine, UnreadableLine}}
    \cup {TailLine(Bare("user"), ShortBytes, {50}),
          TailLine(Bare("user"), TAIL_SIZE - 2 * ShortBytes - 2, {}),
          TailLine(Bare("user"), TAIL_SIZE - ShortBytes - 1, {}),
          TailLine(Bare("user"), TAIL_SIZE - 2 * ShortBytes - 2 + 50, {}),
          TailLine(Bare("user"), TAIL_SIZE, {}),
          TailLine(Summary(<<"S">>), TAIL_SIZE, {})}

TailInit ==
    /\ \E n \in 0..MaxLines : \E ls \in [1..n -> TailFileLines] :
           \E nl \in BOOLEAN : tail_file = [lines |-> ls, newline_end |-> nl]
    /\ tail_summary = None

TailIdle ==
    /\ tail_file = [lines |-> <<>>, newline_end |-> FALSE]
    /\ tail_summary = None

\* read_file_tail calls the summary lookup on a file that opens
ReadSummaryFromTail ==
    /\ tail_summary = None
    /\ tail_summary' = Some(read_summary_from_tail(TailView(tail_file)))
    /\ UNCHANGED tail_file

-----------------------------------------------------------------------------
\* C23: with window W = 16384 bytes the summary lookup returns the summary
\* field of the first record of type "summary" among the complete lines of
\* the trailing window: all lines when the file is at most W bytes long,
\* otherwise the lines following the first newline at or after offset
\* length - W.  It returns nothing only when that window holds no summary
\* record; a summary record before the window is not found.

WindowLines(tf) ==
    LET from == FileLen(tf) - TAIL_SIZE
    IN  IF FileLen(tf) <= TAIL_SIZE THEN 1..Len(tf.lines)
        ELSE {i \in 1..Len(tf.lines) :
                 \E o \in NewlineOffsets(tf) : from <= o /\ o < LineStart(tf, i)}

SummaryRecords(tf) ==
    {i \in WindowLines(tf) : /\ IsRecord(tf.lines[i].line)
                             /\ tf.lines[i].line.type = Some("summary")}

C23_SummaryFromWindow ==
    IsSome(tail_summary) =>
        IF SummaryRecords(tail_file) = {} THEN Unwrap(tail_summary) = None
        ELSE /\ IsSome(Unwrap(tail_summary))
             /\ Unwrap(tail_summary) =
                    tail_file.lines[Earliest(SummaryRecords(tail_file))].line.summary

-----------------------------------------------------------------------------
\* The files handed to the Builder for the display project name: records
\* with a cwd ending or not in a path segment, under data directories whose
\* names the prefix strips shorten, leave alone or consume

Unknown == <<"u", "n", "k", "n", "o", "w", "n">>

ProjectDirs ==
    {ParentDir,
     <<"f">>,
     <<"r", "e", "p", "o", "s", "-">>,
     <<"-", "U", "s", "e", "r", "s", "-", "u">>,
     <<"-", "U", "s", "e", "r", "s", "-", "u", "-">>,
     <<"-", "U", "s", "e", "r", "s", "-", "u", "-", "D", "o", "c", "u", "m", "e", "n", "t", "s", "-">>}

ProjectFileLines ==
    {Bare("init"), Summary(<<"S">>), Message("user", StrContent(PlainText)),
     WithCwd(<<"/", "p">>), WithCwd(<<"/", "p", "/">>), WithCwd(<<"p">>),
     WithCwd(<<"/">>)}

ProjectInit ==
    /\ \E n \in 0..MaxLines : \E ls \in [1..n -> ProjectFileLines] :
           \E d \in ProjectDirs :
               file = [BuilderFile(TRUE, TRUE, ls, 0) EXCEPT !.parent_dir = d]
    /\ scan = None
    /\ built = None

-----------------------------------------------------------------------------
\* C25: the display project name of every materialized session is never
\* empty: it is the last '/'-separated segment of project_path when
\* project_path is non-empty, otherwise the parent directory name after the
\* ordered known-prefix strips, and "unknown" whenever that would be empty.

LastSegment(path) ==
    LET slashes == {i \in 1..Len(path) : path[i] = "/"}
    IN  IF slashes = {} THEN path
        ELSE SubSeq(path, (CHOOSE i \in slashes : \A j \in slashes : j <= i) + 1,
                    Len(path))

OrUnknown(name) == IF name = <<>> THEN Unknown ELSE name

C25_ProjectNameNeverEmpty ==
    (IsSome(built) /\ IsSome(Unwrap(built))) =>
        LET session == Unwrap(Unwrap(built))
        IN  /\ session.project # <<>>
            /\ session.project =
                   IF session.project_path # <<>>
                   THEN OrUnknown(LastSegment(session.project_path))
                   ELSE OrUnknown(extract_project_name(<<>>, file.parent_dir))

-----------------------------------------------------------------------------
\* find_sessions_with_source (claude_code.rs): the parallel Builders
\*
\* jsonl_files.par_iter().filter_map(..).collect(): one Builder task per
\* candidate file; the tasks run and finish in any order and share no
\* state; collect() gathers their results in the order of jsonl_files.

CandidateFile(readable, stat_ok, lines, mtime) ==
    [BuilderFile(readable, stat_ok, lines, 0) EXCEPT !.mtime = Some(mtime)]

\* candidate files: two of the same age, a newer one, one whose metadata
\* cannot be read (unreadable or removed since the walk) and an empty one
CandidateFiles ==
    {CandidateFile(TRUE, TRUE, <<WithCwd(<<"/", "p">>)>>, 1),
     CandidateFile(TRUE, TRUE, <<WithCwd(<<"/", "q">>)>>, 1),
     CandidateFile(TRUE, TRUE, <<WithCwd(<<"/", "p">>)>>, 2),
     CandidateFile(FALSE, FALSE, <<WithCwd(<<"/", "q">>)>>, 2),
     CandidateFile(TRUE, TRUE, <<Bare("init")>>, 2)}

\* the closure of filter_map: one Builder task
BuilderTask(f) == extract_session_metadata(f, "local")

\* (mutant) the results are gathered in the order the tasks finished
collect_as_finished(results, finished) ==
    FilterMap([k \in 1..Len(finished) |-> Unwrap(results[finished[k]])])

\* .collect(): the present results in the order of the input, whatever the
\* order in which the tasks finished
collect(results, finished) ==
    FilterMap([i \in 1..Len(results) |-> Unwrap(results[i])])

ParInit ==
    /\ \E n \in 0..MaxTasks : par_files \in [1..n -> CandidateFiles]
    /\ par_results = [i \in 1..Len(par_files) |-> None]
    /\ par_finished = <<>>
    /\ par_sessions = None

ParIdle ==
    /\ par_files = <<>>
    /\ par_results = <<>>
    /\ par_finished = <<>>
    /\ par_sessions = None

\* one Builder task runs to its end
BuilderFinishes ==
    /\ par_sessions = None
    /\ \E i \in 1..Len(par_files) :
        /\ par_results[i] = None
        /\ par_results' = [par_results EXCEPT ![i] = Some(BuilderTask(par_files[i]))]
        /\ par_finished' = Append(par_finished, i)
    /\ UNCHANGED <<par_files, par_sessions>>

\* all tasks have finished: collect, sort, return
CollectAndSort ==
    /\ par_sessions = None
    /\ Len(par_finished) = Len(par_files)
    /\ par_sessions' = Some(SortByModifiedDesc(collect(par_results, par_finished)))
    /\ UNCHANGED <<par_files, par_results, par_finished>>

-----------------------------------------------------------------------------
\* C26: for a fixed list of candidate files the session list the Locator
\* returns is the same for every order in which the parallel Builders run
\* and finish (it is a function of the files alone), and a file whose
\* Builder fails removes only its own session: the list is the one returned
\* for the candidates without that file.

SessionsOfFiles(files) ==
    SortByModifiedDesc(FilterMap([i \in 1..Len(files) |-> BuilderTask(files[i])]))

Without(files, i) ==
    [k \in 1..(Len(files) - 1) |-> IF k < i THEN files[k] ELSE files[k + 1]]

C26_OrderIndependent ==
    IsSome(par_sessions) =>
        /\ Unwrap(par_sessions) = SessionsOfFiles(par_files)
        /\ \A i \in 1..Len(par_files) :
               BuilderTask(par_files[i]) = None =>
                   Unwrap(par_sessions) = SessionsOfFiles(Without(par_files, i))

\* the list has been returned after the tasks finished in an order other
\* than the input order, one of them failed, and two sessions are of the
\* same age
C26_Witness ==
    /\ IsSome(par_sessions)
    /\ \E k \in 1..(Len(par_finished) - 1) : par_finished[k] > par_finished[k + 1]
    /\ \E i \in 1..Len(par_files) : ~par_files[i].stat_ok
    /\ \E i, j \in 1..Len(Unwrap(par_sessions)) :
           /\ i # j
           /\ Unwrap(par_sessions)[i].modified = Unwrap(par_sessions)[j].modified
           /\ Unwrap(par_sessions)[i] # Unwrap(par_sessions)[j]

-----------------------------------------------------------------------------
\* C30: in every navigation state reachable from the default state by any
\* sequence of reducer actions, the search pattern is present if and only
\* if the search result set is present.

C30_PatternIffResults ==
    IsSome(state.search_pattern) <=> IsSome(state.search_results)

\* Esc has just cleared a search that ApplySearchResults had set
C30_Witness ==
    /\ action.kind = "Esc"
    /\ IsSome(prev.search_pattern) /\ IsSome(prev.search_results)
    /\ state.search_pattern = None /\ state.search_results = None

-----------------------------------------------------------------------------
\* C28: every session of the catalog can be reached by navigation alone:
\* some focus stack reachable from the empty one by DrillRight and DrillLeft,
\* with no search active, has the session in its visible set.

\* the focus stacks one right-arrow or left-arrow away from those of S
NavStep(ss, S) ==
    S \cup {Pop(st) : st \in S}
      \cup {st2 \in {push_focus(ss, p[1], Some(SessionItem(p[2]))) :
                        p \in {q \in S \X Range(ss) :
                                  q[2] \in Range(visible_sessions(ss, None, q[1]))}} :
               Len(st2) <= MaxDepth}

RECURSIVE NavReach(_, _, _)
NavReach(ss, S, k) ==
    IF k = 0 THEN S ELSE NavReach(ss, NavStep(ss, S), k - 1)

C28_EverySessionReachable ==
    pc = "picker" =>
        \A i \in 1..Len(sessions) :
            \E st \in NavReach(sessions, {<<>>}, MaxDepth) :
                sessions[i] \in Range(visible_sessions(sessions, None, st))

-----------------------------------------------------------------------------
\* The interactive loop and InteractiveState::apply, driven side by side
\* (main.rs 1028-1097, interactive_state.rs 48-106)
\*
\* Every picker outcome is handed to both: the loop takes its branch, and the
\* reducer is given the Action built from the same outcome.  The inputs the
\* Action carries are what the loop reads at the same point: the id of the
\* selected item, has_children from session_info, the query of the picker.
\* A RunSearch effect is followed by the search, and
\* Action::ApplySearchResults is applied when the search succeeds.

\* the id of the selected item, as Action::Right and Action::Enter carry it
SelectedId(item) ==
    IF IsSome(item) THEN Some(Unwrap(item).session_id) ELSE None

\* session_info.get(&selected_id): has_children of the selected session
SelectedHasChildren(item) ==
    IF IsSome(item) THEN has_children(sessions, Unwrap(item).session_id)
    ELSE FALSE

\* what the loop did with the outcome, read off its next position: it returned
\* after resume_session, it returned without a session, or it went around
LoopDecision(pc_next, resumed_next) ==
    IF pc_next = "done"
    THEN IF IsSome(resumed_next)
         THEN Select(Unwrap(resumed_next).session.id)
         ELSE Exit
    ELSE Continue

\* the ctrl-s branch: search_all_sessions is called unless the query is blank
LoopSearchDecision(q) ==
    IF Trim(q) = <<>> THEN Continue ELSE RunSearch(Trim(q))

\* the reducer over ctrl-s: CtrlS, then ApplySearchResults on a successful
\* search for the pattern of the RunSearch effect
ReducerSearch(self, q, outcome) ==
    LET first == apply_CtrlS(self, q) IN
    IF first.effect.kind = "RunSearch" /\ IsSome(outcome)
    THEN Result(apply_ApplySearchResults(first.state,
                                         Unwrap(first.effect.pattern),
                                         Unwrap(outcome)).state,
                first.effect)
    ELSE first

BothEsc ==
    /\ LoopEsc
    /\ Esc
    /\ loop_effect' = LoopDecision(pc', resumed')

\* the queries of the side-by-side run: a blank one and one to be trimmed
EquivQueries == {<<" ">>, <<" ", "a">>}

\* the search fails, or matches no session, one session or every session
EquivOutcomes == {None, Some({}), Some({"a"}), Some(Ids)}

BothCtrlS ==
    /\ pc = "picker"
    /\ \E q \in EquivQueries, outcome \in EquivOutcomes :
         /\ LoopCtrlSWith(q, outcome)
         /\ Step(ReducerSearch(state, q, outcome),
                 [NoAction EXCEPT !.kind = "CtrlS", !.query = Some(q)])
         /\ loop_effect' = LoopSearchDecision(q)
    /\ UNCHANGED <<sessions, focus_stack, pc, selected_item, resumed>>

BothRight ==
    /\ pc = "picker"
    /\ \E item \in SelectedItems :
         /\ LoopRightWith(item)
         /\ Step(apply_Right(state, SelectedId(item), SelectedHasChildren(item)),
                 [NoAction EXCEPT !.kind = "Right",
                                  !.selected_id = SelectedId(item),
                                  !.has_children = SelectedHasChildren(item)])
    /\ UNCHANGED <<sessions, search_results, search_pattern, pc,
                   selected_item, resumed>>
    /\ loop_effect' = LoopDecision(pc', resumed')

BothLeft ==
    /\ LoopLeft
    /\ Left
    /\ loop_effect' = LoopDecision(pc', resumed')

BothEnter ==
    /\ pc = "picker"
    /\ \E item \in SelectedItems :
         /\ LoopEnterWith(item)
         /\ Step(apply_Enter(state, SelectedId(item)),
                 [NoAction EXCEPT !.kind = "Enter",
                                  !.selected_id = SelectedId(item)])
    /\ UNCHANGED <<sessions, search_results, search_pattern, focus_stack>>
    /\ loop_effect' = LoopDecision(pc', resumed')

EquivInit == loop_effect = Continue

\* The source of a session reaches the navigation only by letting two sessions
\* carry one id: the catalogs of the side-by-side run use a second source for
\* such copies alone.
EquivCatalog ==
    \A i \in 1..Len(sessions) :
        sessions[i].source # "local" =>
            \E j \in 1..Len(sessions) :
                /\ sessions[j].id = sessions[i].id
                /\ sessions[j].source = "local"
EquivIdle == EquivInit

\* C29: the interactive loop and the reducer, given the same picker outcomes
\* (abort, ctrl-s with a query, right, left, enter, with or without a selected
\* item), hold the same search pattern, search result set and focus stack
\* after every step, and take the same decision: continue, exit, run a search
\* for the same pattern, or select the same session.
C29_LoopMatchesReducer ==
    pc # "idle" =>
        /\ state.search_pattern = search_pattern
        /\ state.search_results = search_results
        /\ state.focus_stack = focus_stack
        /\ effect = loop_effect

\* a session is selected from inside a subtree while a search is active,
\* after both machines have pushed, searched and selected in step
C29_Witness ==
    /\ pc = "done"
    /\ effect.kind = "Select"
    /\ focus_stack # <<>>
    /\ IsSome(search_results)
    /\ state.focus_stack = focus_stack
    /\ state.search_results = search_results

-----------------------------------------------------------------------------
\* Specifications

NavIdle  == ReducerIdle /\ LoopIdle /\ TreeIdle
LateIdle == SyncIdle /\ TailIdle /\ ParIdle /\ EquivIdle
FileIdle == UuidIdle /\ PathIdle /\ ScanIdle /\ DiscIdle /\ LateIdle

Init == ReducerInit /\ LoopIdle /\ TreeIdle /\ FileIdle

Next ==
    \/ Esc /\ UNCHANGED <<loopVars, treeVars, fileVars>>
    \/ CtrlS /\ UNCHANGED <<loopVars, treeVars, fileVars>>
    \/ ApplySearchResults /\ UNCHANGED <<loopVars, treeVars, fileVars>>
    \/ Right /\ UNCHANGED <<loopVars, treeVars, fileVars>>
    \/ Left /\ UNCHANGED <<loopVars, treeVars, fileVars>>
    \/ Enter /\ UNCHANGED <<loopVars, treeVars, fileVars>>

Spec == Init /\ [][Next]_vars

InitLoop == ReducerIdle /\ LoopInit /\ TreeIdle /\ FileIdle

NextLoop ==
    \/ LoopEsc /\ UNCHANGED <<reducerVars, treeVars, fileVars>>
    \/ LoopCtrlS /\ UNCHANGED <<reducerVars, treeVars, fileVars>>
    \/ LoopRight /\ UNCHANGED <<reducerVars, treeVars, fileVars>>
    \/ LoopLeft /\ UNCHANGED <<reducerVars, treeVars, fileVars>>
    \/ LoopEnter /\ UNCHANGED <<reducerVars, treeVars, fileVars>>
    \/ LoopNoOutput /\ UNCHANGED <<reducerVars, treeVars, fileVars>>

SpecLoop == InitLoop /\ [][NextLoop]_vars

InitTree == ReducerIdle /\ LoopIdle /\ TreeInit /\ FileIdle

NextTree == BuildForkTree /\ UNCHANGED <<reducerVars, loopVars, fileVars>>

SpecTree == InitTree /\ [][NextTree]_vars

InitUuid == NavIdle /\ UuidInit /\ PathIdle /\ ScanIdle /\ DiscIdle /\ LateIdle

NextUuid == ValidateUuid /\ UNCHANGED <<navVars, pathVars, scanVars, discVars, lateVars>>

SpecUuid == InitUuid /\ [][NextUuid]_vars

InitPath == NavIdle /\ UuidIdle /\ PathInit /\ ScanIdle /\ DiscIdle /\ LateIdle

NextPath == FilterPath /\ UNCHANGED <<navVars, uuidVars, scanVars, discVars, lateVars>>

SpecPath == InitPath /\ [][NextPath]_vars

InitScan == NavIdle /\ UuidIdle /\ PathIdle /\ ScanInit /\ DiscIdle /\ LateIdle

NextScan == ScanFile /\ UNCHANGED <<navVars, uuidVars, pathVars, discVars, lateVars>>

SpecScan == InitScan /\ [][NextScan]_vars

InitBuild == NavIdle /\ UuidIdle /\ PathIdle /\ BuildInit /\ DiscIdle /\ LateIdle

NextBuild == BuildSession /\ UNCHANGED <<navVars, uuidVars, pathVars, discVars, lateVars>>

SpecBuild == InitBuild /\ [][NextBuild]_vars

InitTitle == NavIdle /\ UuidIdle /\ PathIdle /\ TitleInit /\ DiscIdle /\ LateIdle

SpecTitle == InitTitle /\ [][NextBuild]_vars

InitDisc == NavIdle /\ UuidIdle /\ PathIdle /\ ScanIdle /\ DiscInit /\ LateIdle

NextDisc ==
    \/ FindSessions /\ UNCHANGED <<navVars, uuidVars, pathVars, scanVars, lateVars>>
    \/ FindAllSessions /\ UNCHANGED <<navVars, uuidVars, pathVars, scanVars, lateVars>>

SpecDisc == InitDisc /\ [][NextDisc]_vars

InitSync == NavIdle /\ UuidIdle /\ PathIdle /\ ScanIdle /\ DiscIdle /\ SyncInit /\ TailIdle /\ ParIdle /\ EquivIdle

NextSync ==
    \/ SyncAbort /\ UNCHANGED <<navVars, uuidVars, pathVars, scanVars, discVars, tailVars, parVars, equivVars>>
    \/ SyncSkip /\ UNCHANGED <<navVars, uuidVars, pathVars, scanVars, discVars, tailVars, parVars, equivVars>>
    \/ SyncAttempt /\ UNCHANGED <<navVars, uuidVars, pathVars, scanVars, discVars, tailVars, parVars, equivVars>>

SpecSync == InitSync /\ [][NextSync]_vars

InitTail == NavIdle /\ UuidIdle /\ PathIdle /\ ScanIdle /\ DiscIdle /\ SyncIdle /\ TailInit /\ ParIdle /\ EquivIdle

NextTail ==
    ReadSummaryFromTail /\ UNCHANGED <<navVars, uuidVars, pathVars, scanVars, discVars, syncVars, parVars, equivVars>>

SpecTail == InitTail /\ [][NextTail]_vars

InitProject == NavIdle /\ UuidIdle /\ PathIdle /\ ProjectInit /\ DiscIdle /\ LateIdle

SpecProject == InitProject /\ [][NextBuild]_vars

InitPar == NavIdle /\ UuidIdle /\ PathIdle /\ ScanIdle /\ DiscIdle /\ SyncIdle /\ TailIdle /\ ParInit /\ EquivIdle

NextPar ==
    \/ BuilderFinishes /\ UNCHANGED <<navVars, uuidVars, pathVars, scanVars, discVars, syncVars, tailVars, equivVars>>
    \/ CollectAndSort /\ UNCHANGED <<navVars, uuidVars, pathVars, scanVars, discVars, syncVars, tailVars, equivVars>>

SpecPar == InitPar /\ [][NextPar]_vars

InitEquiv == ReducerInit /\ LoopInit /\ EquivCatalog /\ TreeIdle /\ UuidIdle /\ PathIdle /\ ScanIdle /\ DiscIdle /\ SyncIdle /\ TailIdle /\ ParIdle /\ EquivInit

NextEquiv ==
    \/ BothEsc /\ UNCHANGED <<treeVars, uuidVars, pathVars, scanVars, discVars, syncVars, tailVars, parVars>>
    \/ BothCtrlS /\ UNCHANGED <<treeVars, uuidVars, pathVars, scanVars, discVars, syncVars, tailVars, parVars>>
    \/ BothRight /\ UNCHANGED <<treeVars, uuidVars, pathVars, scanVars, discVars, syncVars, tailVars, parVars>>
    \/ BothLeft /\ UNCHANGED <<treeVars, uuidVars, pathVars, scanVars, discVars, syncVars, tailVars, parVars>>
    \/ BothEnter /\ UNCHANGED <<treeVars, uuidVars, pathVars, scanVars, discVars, syncVars, tailVars, parVars>>

SpecEquiv == InitEquiv /\ [][NextEquiv]_vars

====
